---------------------------- MODULE Spec2Model ----------------------------
(***************************************************************************)
(* EduRecommender: the retrieve-then-rerank recommendation pipeline.       *)
(*                                                                         *)
(*   app/embeddings.py   embedding backend, cosine retrieval               *)
(*   app/llm_ranker.py   remote (chat-completion) ranking, rule-based      *)
(*                       ranking, rerank                                   *)
(*   app/recommender.py  catalogue-embedding cache, get_recommendations    *)
(*   app/schemas.py      UserProfile / Recommendation validation           *)
(*   api/main.py         POST /recommend                                   *)
(*                                                                         *)
(* Python values are modelled as follows.  None is NoneVal and a present   *)
(* value v is Some(v).  A raised exception is a result record with         *)
(* ok = FALSE and the exception's class in exc.  A dict is a function      *)
(* whose DOMAIN is its key set.  A score is an integer number of           *)
(* 1/ScoreDen units, so that the sums and the comparisons of the code are  *)
(* exact.                                                                  *)
(***************************************************************************)
EXTENDS Integers, Sequences, FiniteSets, TLC

NoneVal == [isNone |-> TRUE]

Some(v) == [isNone |-> FALSE, v |-> v]

Ok(v) == [ok |-> TRUE, v |-> v]

Raise(e) == [ok |-> FALSE, exc |-> e]

Range(s) == {s[i] : i \in DOMAIN s}

Min(a, b) == IF a <= b THEN a ELSE b

Max(a, b) == IF a >= b THEN a ELSE b

Abs(a) == IF a >= 0 THEN a ELSE 0 - a

Take(s, n) == SubSeq(s, 1, Min(n, Len(s)))

(***************************************************************************)
(* schemas.py: enums and records                                           *)
(***************************************************************************)
Difficulty == {"Beginner", "Intermediate", "Advanced"}

LearningStyle == {"visual", "reading", "hands-on"}

ContentFormat == {"video", "slides", "lecture"}

ContentItem(id, title, difficulty, duration, tags, format) ==
  [id |-> id, title |-> title, description |-> "d", difficulty |-> difficulty,
   duration_minutes |-> duration, tags |-> tags, format |-> format]

(***************************************************************************)
(* embeddings.py: text projections and the embedding backend               *)
(*                                                                         *)
(* A text is the tuple of the fields the f-string concatenates.  The       *)
(* encoder (sentence-transformers model or remote endpoint) is a           *)
(* deterministic function of the text; Encode stands for it, mapping the   *)
(* text's leading field to a two-dimensional integer vector.               *)
(***************************************************************************)
_content_text(item) == <<item.title, item.description, item.tags>>

_user_text(profile) ==
  <<profile.goal, profile.interest_tags, profile.learning_style>>

Encode(text) ==
  CASE text[1] = "k8s"    -> <<1, 0>>
    [] text[1] = "mlops"  -> <<1, 0>>
    [] text[1] = "torch"  -> <<1, 1>>
    [] text[1] = "pandas" -> <<0, 1>>
    [] text[1] = "bert"   -> <<0 - 1, 1>>
    [] text[1] = "deploy" -> <<1, 0>>
    [] text[1] = "nlp"    -> <<0, 1>>
    [] OTHER              -> <<0, 0>>

Dot(a, b) == a[1] * b[1] + a[2] * b[2]

(* cosine_similarity(u, c) as the exact fraction <<n, d>>, d > 0, of the    *)
(* signed square of the cosine (monotone in the cosine); sklearn           *)
(* normalises a zero vector to itself, so its similarity is 0.             *)
cosine_similarity(u, c) ==
  LET d == Dot(u, c)
      n == Dot(u, u) * Dot(c, c)
  IN  IF n = 0 THEN <<0, 1>>
      ELSE <<(IF d >= 0 THEN d * d ELSE 0 - d * d), n>>

KeyLess(a, b) == a[1] * b[2] < b[1] * a[2]

KeyEq(a, b) == a[1] * b[2] = b[1] * a[2]

(* An insertion that puts x before the entries of equal key: the order an  *)
(* unstable sort could give.                                               *)
InsertDescBeforeEqual(sorted, x) ==
  LET later == {p \in 1..Len(sorted) : ~KeyLess(x.key, sorted[p].key)}
      at == IF later = {} THEN Len(sorted) + 1
            ELSE CHOOSE p \in later : \A q \in later : p <= q
  IN  SubSeq(sorted, 1, at - 1) \o <<x>> \o SubSeq(sorted, at, Len(sorted))

(* list.sort(key=..., reverse=True): a stable sort, equal keys keep their  *)
(* input order.  s is a sequence of records with a field key.              *)
InsertDesc(sorted, x) ==
  LET later == {p \in 1..Len(sorted) : KeyLess(sorted[p].key, x.key)}
      at == IF later = {} THEN Len(sorted) + 1
            ELSE CHOOSE p \in later : \A q \in later : p <= q
  IN  SubSeq(sorted, 1, at - 1) \o <<x>> \o SubSeq(sorted, at, Len(sorted))

RECURSIVE SortDesc(_)
SortDesc(s) ==
  IF Len(s) <= 1 THEN s
  ELSE InsertDesc(SortDesc(SubSeq(s, 1, Len(s) - 1)), s[Len(s)])

(* retrieve_top_k(user_emb, content_embs, items, k, exclude_ids).          *)
(* content_embs has one row per embedded text; items[idx] raises           *)
(* IndexError for a row past the end of items, and cosine_similarity       *)
(* raises ValueError for an array with no rows.                            *)
retrieve_top_k(user_emb, content_embs, items, k, exclude_ids) ==
  LET excluded == Range(exclude_ids)
      similarities ==
        [i \in 1..Len(content_embs) |->
           cosine_similarity(user_emb, content_embs[i])]
      rows == [i \in 1..Len(content_embs) |-> i]
      kept(i) == items[i].id \notin excluded
      scored == [i \in 1..Len(SelectSeq(rows, kept)) |->
                   [idx |-> SelectSeq(rows, kept)[i],
                    key |-> similarities[SelectSeq(rows, kept)[i]]]]
      ranked == SortDesc(scored)
  IN  IF Len(content_embs) = 0 THEN Raise("ValueError")
      ELSE IF Len(content_embs) > Len(items) THEN Raise("IndexError")
      ELSE Ok([i \in 1..Min(k, Len(ranked)) |-> items[ranked[i].idx]])

(***************************************************************************)
(* schemas.py: Recommendation.  Pydantic validates on construction: id is  *)
(* a required int and match_score, when given, lies in [0, 1].  A          *)
(* match_score is an integer number of thousandths.                        *)
(***************************************************************************)
Recommendation(rank, id, title, format, difficulty, duration, tags, explanation, match_score) ==
  IF id.isNone \/ rank < 1 THEN Raise("ValidationError")
  ELSE IF ~match_score.isNone /\ (match_score.v < 0 \/ match_score.v > 1000)
  THEN Raise("ValidationError")
  ELSE Ok([rank |-> rank, id |-> id.v, title |-> title, format |-> format,
           difficulty |-> difficulty, duration_minutes |-> duration,
           tags |-> tags, explanation |-> explanation,
           match_score |-> match_score])

(* The first failure of a sequence of construction results, else the       *)
(* constructed values.                                                     *)
Collect(results) ==
  LET bad == {i \in DOMAIN results : ~results[i].ok}
  IN  IF bad = {} THEN Ok([i \in DOMAIN results |-> results[i].v])
      ELSE results[CHOOSE i \in bad : \A j \in bad : i <= j]

RerankResult(recommendations, reasoning_raw, method) ==
  [recommendations |-> recommendations, reasoning_raw |-> reasoning_raw,
   method |-> method]

(***************************************************************************)
(* llm_ranker.py: rule-based ranking                                       *)
(***************************************************************************)
ScoreDen == 3 * 1000

FormatBonus == ScoreDen \div 5

DiffPenaltyStep == (ScoreDen * 3) \div 20

TopN == 3

(* A preference table whose reading row lacks lecture.                     *)
StyleFormatMapNoLecture(style) ==
  CASE style = "visual"   -> {"video"}
    [] style = "reading"  -> {"slides"}
    [] style = "hands-on" -> {"video", "lecture"}
    [] OTHER              -> {}

_STYLE_FORMAT_MAP(style) ==
  CASE style = "visual"   -> {"video"}
    [] style = "reading"  -> {"slides", "lecture"}
    [] style = "hands-on" -> {"video", "lecture"}
    [] OTHER              -> {}

_DIFFICULTY_ORDER(d) ==
  CASE d = "Beginner"     -> 0
    [] d = "Intermediate" -> 1
    [] d = "Advanced"     -> 2
    [] OTHER              -> 1

(* A conversion to thousandths that cuts the score instead of rounding it. *)
Truncate3(score) == score \div 3

(* round(score, 3) of a score in 1/ScoreDen units, in thousandths.         *)
Round3(score) == (score + 1) \div 3

RuleScore(profile, item) ==
  LET user_tags == Range(profile.interest_tags)
      tag_overlap ==
        (ScoreDen * Cardinality(user_tags \cap Range(item.tags)))
          \div Max(Cardinality(user_tags), 1)
      format_bonus ==
        IF item.format \in _STYLE_FORMAT_MAP(profile.learning_style)
        THEN FormatBonus ELSE 0
      diff_penalty ==
        Abs(_DIFFICULTY_ORDER(item.difficulty)
              - _DIFFICULTY_ORDER(profile.preferred_difficulty))
          * DiffPenaltyStep
  IN  tag_overlap + format_bonus - diff_penalty

(* The score is computed in binary floating point (IEEE 754 doubles):      *)
(* tag_overlap + format_bonus - diff_penalty with tag_overlap = k / n,      *)
(* format_bonus 0.2 or 0.0 and diff_penalty = steps * 0.15.  FloatUlps is   *)
(* the distance, in units in the last place, of the double computed from   *)
(* the double nearest to the exact sum, for profiles of up to 5 distinct   *)
(* interest tags: sums that are equal as reals need not be equal as        *)
(* computed (2/5 + 0.2 gives 0.6000000000000001, 3/5 + 0.0 gives 0.6).      *)
FloatUlps(n, k, bonus, steps) ==
  CASE <<n, k, bonus, steps>> \in
         {<<1, 1, 1, 2>>, <<2, 1, 1, 1>>, <<2, 1, 1, 2>>, <<2, 2, 1, 2>>,
          <<3, 1, 0, 2>>, <<3, 1, 1, 1>>, <<3, 2, 0, 1>>, <<3, 3, 1, 2>>,
          <<4, 2, 1, 1>>, <<4, 2, 1, 2>>, <<4, 3, 1, 1>>, <<4, 3, 1, 2>>,
          <<4, 4, 1, 2>>, <<5, 3, 0, 1>>, <<5, 5, 1, 2>>} -> 0 - 1
    [] <<n, k, bonus, steps>> \in
         {<<4, 1, 1, 1>>, <<4, 1, 1, 2>>, <<5, 2, 1, 0>>, <<5, 2, 1, 1>>} -> 1
    [] <<n, k, bonus, steps>> \in
         {<<1, 0, 1, 1>>, <<1, 0, 1, 2>>, <<2, 0, 1, 1>>, <<2, 0, 1, 2>>,
          <<3, 0, 1, 1>>, <<3, 0, 1, 2>>, <<4, 0, 1, 1>>, <<4, 0, 1, 2>>,
          <<4, 1, 0, 2>>, <<5, 0, 1, 1>>, <<5, 0, 1, 2>>, <<5, 1, 0, 1>>,
          <<5, 1, 0, 2>>, <<5, 1, 1, 2>>, <<5, 2, 0, 2>>, <<5, 2, 1, 2>>} -> 2
    [] OTHER -> 0

(* The computed score as the sort compares it: the exact sum in eighths of *)
(* a 1/ScoreDen unit, moved by the rounding error of the computation.  Two *)
(* different exact sums differ by far more than the rounding errors.       *)
FloatScore(profile, item) ==
  LET user_tags == Range(profile.interest_tags)
  IN  <<8 * RuleScore(profile, item)
          + FloatUlps(Max(Cardinality(user_tags), 1),
              Cardinality(user_tags \cap Range(item.tags)),
              IF item.format \in _STYLE_FORMAT_MAP(profile.learning_style)
              THEN 1 ELSE 0,
              Abs(_DIFFICULTY_ORDER(item.difficulty)
                    - _DIFFICULTY_ORDER(profile.preferred_difficulty))),
        8>>

(* An exclusion that also drops a candidate whose duration equals the      *)
(* budget.                                                                 *)
SurvivesBelowBudget(profile, item) ==
  /\ item.id \notin Range(profile.viewed_content_ids)
  /\ item.duration_minutes < profile.time_per_day

(* The candidates the exclusion loop keeps (lines 215-219).                *)
Survives(profile, item) ==
  /\ item.id \notin Range(profile.viewed_content_ids)
  /\ ~(item.duration_minutes > profile.time_per_day)

RuleReasoning == <<[k |-> "x", s |-> "Rule-based scoring"]>>

(* A sort that leaves candidates of equal score in the reverse of their    *)
(* input order.                                                            *)
ScoredCandidatesTiesReversed(profile, candidates) ==
  LET keep(item) == Survives(profile, item)
      kept == SelectSeq(candidates, keep)
  IN  SortDesc([i \in 1..Len(kept) |->
                  [key |-> FloatScore(profile, kept[Len(kept) + 1 - i]),
                   score |-> RuleScore(profile, kept[Len(kept) + 1 - i]),
                   item |-> kept[Len(kept) + 1 - i]]])

(* Lines 214-229: the surviving candidates with their scores, sorted.      *)
ScoredCandidates(profile, candidates) ==
  LET keep(item) == Survives(profile, item)
      kept == SelectSeq(candidates, keep)
  IN  SortDesc([i \in 1..Len(kept) |->
                  [key |-> FloatScore(profile, kept[i]),
                   score |-> RuleScore(profile, kept[i]),
                   item |-> kept[i]]])

(* A Recommendation that lists the matched tags in place of the item's.    *)
RuleRecommendationCommonTags(profile, rank, score, item) ==
  LET matched(tag) == tag \in Range(profile.interest_tags)
  IN  Recommendation(rank, Some(item.id), item.title, item.format,
        item.difficulty, item.duration_minutes, SelectSeq(item.tags, matched),
        <<"Matched on tags",
          Range(item.tags) \cap Range(profile.interest_tags),
          profile.learning_style, item.difficulty>>,
        Some(Round3(score)))

(* Lines 233-249: the Recommendation built for one scored candidate.       *)
RuleRecommendation(profile, rank, score, item) ==
  Recommendation(rank, Some(item.id), item.title, item.format,
    item.difficulty, item.duration_minutes, item.tags,
    <<"Matched on tags", Range(item.tags) \cap Range(profile.interest_tags),
      profile.learning_style, item.difficulty>>,
    Some(Round3(score)))

(* Lines 231-250 over scored[:3].                                          *)
RuleRecommendations(profile, top) ==
  Collect([r \in 1..Len(top) |->
             RuleRecommendation(profile, r, top[r].score, top[r].item)])

(* Lines 252-259, reached when no constructor raised.                      *)
RuleResult(recs) ==
  IF recs.ok THEN Ok(RerankResult(recs.v, Some(RuleReasoning), "rule-based"))
  ELSE recs

_rule_based_rerank(profile, candidates) ==
  RuleResult(RuleRecommendations(profile,
               Take(ScoredCandidates(profile, candidates), TopN)))

(***************************************************************************)
(* llm_ranker.py: the remote path                                          *)
(*                                                                         *)
(* A response text is a sequence of tokens: LB and RB are the characters   *)
(* [ and ] outside any JSON object, COMMA a comma, PROSE any other text,   *)
(* NUM a JSON scalar, FENCE a markdown code fence, and                     *)
(* OBJ(d, br) the text of one JSON object that parses to the dict d; br    *)
(* lists the bracket characters inside the object's text, in order (the    *)
(* brackets of its "tags" array, or brackets inside its string values).    *)
(* The values of a dict are of the types the schema expects.               *)
(***************************************************************************)
LB == [k |-> "["]

RB == [k |-> "]"]

COMMA == [k |-> ","]

PROSE == [k |-> "x"]

NUM == [k |-> "n"]

FENCE == [k |-> "fence"]

OBJ(d, br) == [k |-> "{", d |-> d, br |-> br]

Get(d, key, default) == IF key \in DOMAIN d THEN d[key] ELSE default

(* The characters of a text that the depth scan distinguishes: c is "[",   *)
(* "]" or "o" (any other character), t the token it belongs to, top        *)
(* whether it lies outside every object.                                   *)
TokenChars(tok, t) ==
  CASE tok.k = "[" -> <<[c |-> "[", t |-> t, top |-> TRUE]>>
    [] tok.k = "]" -> <<[c |-> "]", t |-> t, top |-> TRUE]>>
    [] tok.k = "{" -> <<[c |-> "o", t |-> t, top |-> FALSE]>>
                      \o [i \in 1..Len(tok.br) |->
                            [c |-> tok.br[i], t |-> t, top |-> FALSE]]
    [] OTHER       -> <<[c |-> "o", t |-> t, top |-> TRUE]>>

RECURSIVE CharsFrom(_, _)
CharsFrom(raw, t) ==
  IF t > Len(raw) THEN <<>>
  ELSE TokenChars(raw[t], t) \o CharsFrom(raw, t + 1)

Chars(raw) == CharsFrom(raw, 1)

(* json.loads of the token span lo..hi: the list of its elements, a dict   *)
(* for an object and NotDict for any other value.                          *)
NotDict == [notdict |-> TRUE]

IsDict(x) == "notdict" \notin DOMAIN x

RECURSIVE TokDepthEnd(_, _, _, _)
TokDepthEnd(toks, pos, hi, depth) ==
  IF pos > hi THEN 0
  ELSE LET d == CASE toks[pos].k = "[" -> depth + 1
                  [] toks[pos].k = "]" -> depth - 1
                  [] OTHER             -> depth
       IN  IF d = 0 THEN pos ELSE TokDepthEnd(toks, pos + 1, hi, d)

RECURSIVE json_array(_, _, _)
RECURSIVE json_elems(_, _, _)
RECURSIVE ValueEnd(_, _, _)

ValueEnd(toks, lo, hi) ==
  CASE toks[lo].k \in {"{", "n"} -> lo
    [] toks[lo].k = "[" ->
         LET m == TokDepthEnd(toks, lo, hi, 0)
         IN  IF m # 0 /\ json_array(toks, lo, m).ok THEN m ELSE 0
    [] OTHER -> 0

json_elems(toks, lo, hi) ==
  LET e == ValueEnd(toks, lo, hi)
      val == IF toks[lo].k = "{" THEN toks[lo].d ELSE NotDict
  IN  IF e = 0 \/ e > hi THEN Raise("JSONDecodeError")
      ELSE IF e = hi THEN Ok(<<val>>)
      ELSE IF toks[e + 1].k = "," /\ e + 2 <= hi
      THEN LET rest == json_elems(toks, e + 2, hi)
           IN  IF rest.ok THEN Ok(<<val>> \o rest.v) ELSE rest
      ELSE Raise("JSONDecodeError")

json_array(toks, lo, hi) ==
  IF ~(lo < hi /\ toks[lo].k = "[" /\ toks[hi].k = "]")
  THEN Raise("JSONDecodeError")
  ELSE IF hi = lo + 1 THEN Ok(<<>>)
  ELSE json_elems(toks, lo + 1, hi - 1)

(* json.loads(raw[i : j + 1]) for character positions i..j.  A span that   *)
(* starts inside an object is a list of non-dicts or no JSON at all; one   *)
(* that starts outside and ends inside cuts the object and is no JSON.     *)
json_loads(raw, chars, i, j) ==
  IF chars[i].top /\ chars[j].top
  THEN json_array(raw, chars[i].t, chars[j].t)
  ELSE IF ~chars[i].top /\ chars[i].t = chars[j].t
  THEN Ok(<<NotDict>>)
  ELSE Raise("JSONDecodeError")

RECURSIVE DepthEnd(_, _, _)
DepthEnd(chars, pos, depth) ==
  IF pos > Len(chars) THEN 0
  ELSE LET d == CASE chars[pos].c = "[" -> depth + 1
                  [] chars[pos].c = "]" -> depth - 1
                  [] OTHER              -> depth
       IN  IF d = 0 THEN pos ELSE DepthEnd(chars, pos + 1, d)

RECURSIVE ExtractFrom(_, _, _, _)
ExtractFrom(raw, chars, i, best) ==
  IF i > Len(chars) THEN best
  ELSE IF chars[i].c # "[" THEN ExtractFrom(raw, chars, i + 1, best)
  ELSE LET j == DepthEnd(chars, i, 0)
           parsed == IF j = 0 THEN Raise("JSONDecodeError")
                     ELSE json_loads(raw, chars, i, j)
           better == /\ parsed.ok
                     /\ Len(parsed.v) > Len(best)
                     /\ \A x \in Range(parsed.v) : IsDict(x)
       IN  ExtractFrom(raw, chars, i + 1, IF better THEN parsed.v ELSE best)

_extract_json_array(raw) == ExtractFrom(raw, Chars(raw), 1, <<>>)

(* _call_llm: one chat-completion exchange.  exchange.kind is "transport"  *)
(* (no response: connection error or timeout), "status" (non-2xx),         *)
(* "payload" (a body without choices[0].message) or "ok" with the          *)
(* message's content and reasoning texts (empty when absent).              *)
StripFences(text) == LET notfence(tok) == tok.k # "fence"
                     IN  SelectSeq(text, notfence)

_call_llm(exchange) ==
  CASE exchange.kind = "transport" -> Raise("ConnectionError")
    [] exchange.kind = "status"    -> Raise("HTTPError")
    [] exchange.kind = "payload"   -> Raise("KeyError")
    [] OTHER ->
         LET response_text == IF exchange.content # <<>>
                              THEN exchange.content ELSE exchange.reasoning
         IN  IF response_text = <<>> THEN Raise("ValueError")
             ELSE Ok([text |-> StripFences(response_text),
                      reasoning |-> IF exchange.reasoning = <<>> THEN NoneVal
                                    ELSE Some(exchange.reasoning)])

(* cand_map.get(cid): the last candidate with that id, else None.          *)
CandGet(candidates, cid) ==
  LET hits == {i \in DOMAIN candidates :
                 ~cid.isNone /\ candidates[i].id = cid.v}
  IN  IF hits = {} THEN NoneVal
      ELSE Some(candidates[CHOOSE i \in hits : \A j \in hits : j <= i])

DefaultExplanation == "Recommended based on your profile."

(* A mapping that trusts the rank field of the extracted object.           *)
LlmRecommendationOwnRank(idx, item, cid, fallback) ==
  Recommendation(Get(item, "rank", idx), cid,
    Get(item, "title", IF fallback.isNone THEN "" ELSE fallback.v.title),
    Get(item, "format", IF fallback.isNone THEN "" ELSE fallback.v.format),
    Get(item, "difficulty",
        IF fallback.isNone THEN "" ELSE fallback.v.difficulty),
    Get(item, "duration_minutes",
        IF fallback.isNone THEN 0 ELSE fallback.v.duration_minutes),
    Get(item, "tags", IF fallback.isNone THEN <<>> ELSE fallback.v.tags),
    <<"llm", Get(item, "explanation", DefaultExplanation)>>,
    NoneVal)

(* Lines 178-198: the Recommendation built for one extracted object.       *)
LlmRecommendation(idx, item, cid, fallback) ==
  Recommendation(idx, cid,
    Get(item, "title", IF fallback.isNone THEN "" ELSE fallback.v.title),
    Get(item, "format", IF fallback.isNone THEN "" ELSE fallback.v.format),
    Get(item, "difficulty",
        IF fallback.isNone THEN "" ELSE fallback.v.difficulty),
    Get(item, "duration_minutes",
        IF fallback.isNone THEN 0 ELSE fallback.v.duration_minutes),
    Get(item, "tags", IF fallback.isNone THEN <<>> ELSE fallback.v.tags),
    <<"llm", Get(item, "explanation", DefaultExplanation)>>,
    NoneVal)

DictId(item) == IF "id" \in DOMAIN item THEN Some(item.id) ELSE NoneVal

(* Lines 171-199 for the extracted list items.                             *)
MapExtracted(items, candidates) ==
  IF items = <<>> THEN Raise("ValueError")
  ELSE Collect([idx \in 1..Min(Len(items), TopN) |->
         LlmRecommendation(idx, items[idx], DictId(items[idx]),
                           CandGet(candidates, DictId(items[idx])))])

_parse_llm_response(raw, candidates) ==
  MapExtracted(_extract_json_array(raw), candidates)

(* The try block of rerank (lines 279-286).                                *)
RemoteParsed(recs, reasoning) ==
  IF recs.ok THEN Ok(RerankResult(recs.v, reasoning, "llm")) ELSE recs

RemoteCalled(called, candidates) ==
  IF called.ok
  THEN RemoteParsed(_parse_llm_response(called.v.text, candidates),
                    called.v.reasoning)
  ELSE called

RemoteRank(candidates, exchange) ==
  RemoteCalled(_call_llm(exchange), candidates)

(* The except branch of rerank (lines 287-289).                            *)
OrRuleBased(remote, profile, candidates) ==
  IF remote.ok THEN remote ELSE _rule_based_rerank(profile, candidates)

(* A rerank that tries the remote path whether or not a credential is      *)
(* configured.                                                             *)
RerankAlwaysRemote(profile, candidates, api_key, exchange) ==
  [res |-> OrRuleBased(RemoteRank(candidates, exchange), profile, candidates),
   requests |-> 1]

(* rerank(profile, candidates) with LLM_API_KEY = api_key and the remote   *)
(* endpoint answering with exchange: the value returned or the exception   *)
(* raised, and the number of chat-completion requests issued.              *)
rerank(profile, candidates, api_key, exchange) ==
  IF api_key = ""
  THEN [res |-> _rule_based_rerank(profile, candidates), requests |-> 0]
  ELSE [res |-> OrRuleBased(RemoteRank(candidates, exchange), profile,
                            candidates),
        requests |-> 1]

(* A UserProfile whose time_per_day is not constrained.                    *)
UserProfileAnyTime(raw) ==
  IF ~({"user_id", "name", "goal", "learning_style", "preferred_difficulty",
        "time_per_day"} \subseteq DOMAIN raw)
  THEN Raise("ValidationError")
  ELSE IF \/ raw.learning_style \notin LearningStyle
          \/ raw.preferred_difficulty \notin Difficulty
  THEN Raise("ValidationError")
  ELSE Ok([user_id |-> raw.user_id, name |-> raw.name, goal |-> raw.goal,
           learning_style |-> raw.learning_style,
           preferred_difficulty |-> raw.preferred_difficulty,
           time_per_day |-> raw.time_per_day,
           viewed_content_ids |-> Get(raw, "viewed_content_ids", <<>>),
           interest_tags |-> Get(raw, "interest_tags", <<>>)])

(***************************************************************************)
(* schemas.py: UserProfile.  raw is the request body, a dict; FastAPI      *)
(* builds the UserProfile from it before the endpoint function runs.       *)
(***************************************************************************)
UserProfile(raw) ==
  IF ~({"user_id", "name", "goal", "learning_style", "preferred_difficulty",
        "time_per_day"} \subseteq DOMAIN raw)
  THEN Raise("ValidationError")
  ELSE IF \/ raw.learning_style \notin LearningStyle
          \/ raw.preferred_difficulty \notin Difficulty
          \/ ~(raw.time_per_day > 0)
  THEN Raise("ValidationError")
  ELSE Ok([user_id |-> raw.user_id, name |-> raw.name, goal |-> raw.goal,
           learning_style |-> raw.learning_style,
           preferred_difficulty |-> raw.preferred_difficulty,
           time_per_day |-> raw.time_per_day,
           viewed_content_ids |-> Get(raw, "viewed_content_ids", <<>>),
           interest_tags |-> Get(raw, "interest_tags", <<>>)])

(***************************************************************************)
(* data.py: catalogues and request bodies the model draws from             *)
(***************************************************************************)
I1 == ContentItem(1, "k8s", "Intermediate", 45, <<"ml", "deploy">>, "video")

I2 == ContentItem(2, "pandas", "Beginner", 60, <<"python">>, "lecture")

I3 == ContentItem(3, "torch", "Intermediate", 90, <<"ml">>, "video")

I4 == ContentItem(4, "mlops", "Advanced", 30, <<"deploy">>, "slides")

I5 == ContentItem(5, "bert", "Advanced", 75, <<"nlp", "ml">>, "lecture")

N1 == ContentItem(0 - 1, "k8s", "Intermediate", 45, <<"ml">>, "video")

N2 == ContentItem(0 - 2, "bert", "Advanced", 75, <<"nlp">>, "lecture")

CatA == <<I1, I2, I3, I4>>

CatB == <<I1, I2, I3, I4, I5>>

CatC == <<N1, I2>>

CatD == <<N2, I2>>

(* CatA after an edit of the title and the tags of item 1: the ids are     *)
(* those of CatA.                                                          *)
I1Edited == ContentItem(1, "bert", "Intermediate", 45, <<"nlp">>, "video")

CatE == <<I1Edited, I2, I3, I4>>

Catalogues == {CatA, CatB, CatC, CatD, CatE}

ReqDana ==
  [user_id |-> "u1", name |-> "Dana", goal |-> "deploy",
   learning_style |-> "hands-on", preferred_difficulty |-> "Intermediate",
   time_per_day |-> 90, interest_tags |-> <<"ml", "python", "deploy">>]

ReqAlice ==
  [user_id |-> "u2", name |-> "Alice", goal |-> "deploy",
   learning_style |-> "visual", preferred_difficulty |-> "Intermediate",
   time_per_day |-> 60, viewed_content_ids |-> <<1>>,
   interest_tags |-> <<"ml", "deploy", "python">>]

ReqBob ==
  [user_id |-> "u3", name |-> "Bob", goal |-> "nlp",
   learning_style |-> "reading", preferred_difficulty |-> "Beginner",
   time_per_day |-> 45, viewed_content_ids |-> <<>>,
   interest_tags |-> <<>>]

ReqSeenAll ==
  [user_id |-> "u4", name |-> "Eve", goal |-> "blank",
   learning_style |-> "visual", preferred_difficulty |-> "Advanced",
   time_per_day |-> 30, viewed_content_ids |-> <<1, 2, 3, 4, 5, 0 - 1, 0 - 2>>,
   interest_tags |-> <<"ml">>]

ReqNoGoal ==
  [user_id |-> "u5", name |-> "Mia", learning_style |-> "visual",
   preferred_difficulty |-> "Beginner", time_per_day |-> 30]

ReqZeroTime == [ReqDana EXCEPT !.time_per_day = 0]

ReqBadStyle == [ReqDana EXCEPT !.learning_style = "auditory"]

ReqBadDifficulty == [ReqDana EXCEPT !.preferred_difficulty = "Expert"]

Requests == {ReqDana, ReqAlice, ReqBob, ReqSeenAll,
             ReqNoGoal, ReqZeroTime, ReqBadStyle, ReqBadDifficulty}

(***************************************************************************)
(* Chat-completion exchanges the model draws from                          *)
(***************************************************************************)
TagsBr == <<"[", "]">>

(* The object the prompt asks for, for a catalogue item.                   *)
ObjOf(item, rank) ==
  OBJ([rank |-> rank, id |-> item.id, title |-> item.title,
       format |-> item.format, difficulty |-> item.difficulty,
       duration_minutes |-> item.duration_minutes, tags |-> item.tags,
       explanation |-> "fits"], TagsBr)

Message(content, reasoning) ==
  [kind |-> "ok", content |-> content, reasoning |-> reasoning]

XTransport == [kind |-> "transport", content |-> <<>>, reasoning |-> <<>>]

XStatus == [kind |-> "status", content |-> <<>>, reasoning |-> <<>>]

XPayload == [kind |-> "payload", content |-> <<>>, reasoning |-> <<>>]

XEmpty == Message(<<>>, <<>>)

XNoArray == Message(<<PROSE, PROSE>>, <<>>)

XGood3 ==
  Message(<<FENCE, LB, ObjOf(I2, 1), COMMA, ObjOf(I4, 2), COMMA, ObjOf(I3, 3),
            RB, FENCE>>, <<PROSE>>)

XViewed == Message(<<PROSE, LB, OBJ([rank |-> 3, id |-> 1], <<>>), RB>>, <<>>)

XReasoningOnly == Message(<<>>, <<PROSE, LB, ObjOf(I2, 1), RB, PROSE>>)

XFour ==
  Message(<<LB, ObjOf(I4, 4), COMMA, ObjOf(I2, 2), COMMA, ObjOf(I2, 1), COMMA,
            ObjOf(I3, 3), RB>>, <<>>)

XNoId == Message(<<LB, OBJ([title |-> "untitled"], <<>>), RB>>, <<PROSE>>)

XTwoArrays ==
  Message(<<PROSE, LB, ObjOf(I2, 1), COMMA, ObjOf(I4, 2), RB, PROSE,
            LB, ObjOf(I4, 1), COMMA, ObjOf(I2, 2), COMMA, OBJ([id |-> 9], <<>>),
            RB>>, <<>>)

XBracketInString ==
  Message(<<LB, OBJ([id |-> 2, explanation |-> "see ]"], <<"]">>), RB>>, <<>>)

XNested == Message(<<LB, LB, ObjOf(I4, 1), RB, COMMA, NUM, RB>>, <<>>)

Exchanges == {XTransport, XStatus, XPayload, XEmpty, XNoArray, XGood3,
              XViewed, XReasoningOnly, XFour, XNoId, XTwoArrays,
              XBracketInString, XNested}

(***************************************************************************)
(* recommender.py and api/main.py: the pipeline as a state machine         *)
(*                                                                         *)
(* Each worker thread of the server handles one request at a time.  The    *)
(* module globals CONTENT_ITEMS, _cached_content_embs and _cache_hash are  *)
(* shared; a thread's locals are in frame.  probe and cache_src record     *)
(* what happened (requests issued, the catalogue the cached key was        *)
(* stored for) and are read by the properties only.                        *)
(***************************************************************************)
VARIABLES CONTENT_ITEMS, _cached_content_embs, _cache_hash, LLM_API_KEY,
          _local_model, pc, profile, frame, response, probe, cache_src

vars == <<CONTENT_ITEMS, _cached_content_embs, _cache_hash, LLM_API_KEY,
          _local_model, pc, profile, frame, response, probe, cache_src>>

Threads == {1, 2}

RetrieveK == 5

(* hash() of an int: -1 is reserved by CPython and hashes to -2; every     *)
(* other int of the model hashes to itself.                                *)
hash_int(n) == IF n = 0 - 1 THEN 0 - 2 ELSE n

(* A cache key that also depends on the items' text.                       *)
ContentHash(items) ==
  [i \in DOMAIN items |-> <<hash_int(items[i].id), items[i].title>>]

(* hash(tuple(item.id for item in items)): the tuple hash combines the     *)
(* element hashes in order; the sequence of element hashes stands for the  *)
(* combined value.                                                         *)
ids_hash(items) == [i \in DOMAIN items |-> hash_int(items[i].id)]

(* get_content_embeddings / get_user_embedding when the backend answers.   *)
get_content_embeddings(items) ==
  [i \in DOMAIN items |-> Encode(_content_text(items[i]))]

get_user_embedding(p) == Encode(_user_text(p))

(* An _embed_via_api that materialises the entries in the order the        *)
(* provider returned them.                                                 *)
EmbedViaApiAsReturned(data) == [j \in DOMAIN data |-> data[j].embedding]

(* Lines 81-82 of embeddings.py: the entries of the payload's data list,   *)
(* sorted by their index field (sorted() is stable and ascending), give    *)
(* the rows of the array.                                                  *)
_embed_via_api(data) ==
  LET keyed == [j \in DOMAIN data |->
                  [key |-> <<0 - data[j].index, 1>>, entry |-> data[j]]]
  IN  [j \in DOMAIN data |-> SortDesc(keyed)[j].entry.embedding]

BackendOutcomes == {"ok", "fail"}

(* _embed_via_api returns one row per entry of the payload's data list,    *)
(* whatever the number of texts sent: a backend that answers with one      *)
(* vector less (short) or one more (long) than asked for.                  *)
CountOutcomes == {"short", "long"}

(* What get_content_embeddings(items) returns or raises for an outcome of  *)
(* the backend call.                                                       *)
BackendVectors(items, outcome) ==
  CASE outcome = "ok"    -> Ok(get_content_embeddings(items))
    [] outcome = "short" ->
         Ok(SubSeq(get_content_embeddings(items), 1, Len(items) - 1))
    [] outcome = "long"  ->
         Ok(Append(get_content_embeddings(items), <<0, 0>>))
    [] OTHER             -> Raise("EmbeddingError")

PipelineStep(step, detail) ==
  [step |-> step, status |-> "done", detail |-> detail,
   duration_ms |-> <<"elapsed", step>>]

RecommendationResponse(user_id, recommendations, pipeline_log, llm_reasoning) ==
  [user_id |-> user_id, recommendations |-> recommendations,
   pipeline_log |-> pipeline_log, llm_reasoning |-> llm_reasoning,
   total_duration_ms |-> <<"elapsed", "total">>]

NoProfile == [user_id |-> ""]

EmptyFrame ==
  [items |-> <<>>, c_items |-> <<>>, current_hash |-> <<>>,
   new_embs |-> <<>>, content_embs |-> NoneVal, user_emb |-> NoneVal,
   candidates |-> NoneVal, result |-> NoneVal, log |-> <<>>,
   error |-> NoneVal, new_model |-> NoneVal, model |-> NoneVal]

NoBody == [none |-> TRUE]

EmptyProbe ==
  [request |-> NoBody, cat_embeds |-> 0, user_embeds |-> 0,
   llm_requests |-> 0, cache_writes |-> 0, pre_cached |-> FALSE,
   pre_src |-> <<>>, failed |-> "", exchange |-> NoneVal, k |-> 0,
   embed_calls |-> 0, loads |-> 0, used |-> {}]

Init ==
  /\ CONTENT_ITEMS = CatA
  /\ _cached_content_embs = NoneVal
  /\ _cache_hash = NoneVal
  /\ LLM_API_KEY \in {"", "hf_token"}
  /\ _local_model = NoneVal
  /\ pc = [t \in Threads |-> "idle"]
  /\ profile = [t \in Threads |-> NoProfile]
  /\ frame = [t \in Threads |-> EmptyFrame]
  /\ response = [t \in Threads |-> NoneVal]
  /\ probe = [t \in Threads |-> EmptyProbe]
  /\ cache_src = <<>>

(* A stage failure that is swallowed: the run ends as a completed run      *)
(* with nothing to recommend.                                              *)
FailSwallowed(t, stage, exc) ==
  /\ pc' = [pc EXCEPT ![t] = "done"]
  /\ frame' = [frame EXCEPT ![t].candidates = Some(<<>>)]

(* An exception raised in stage leaves get_recommendations: nothing in     *)
(* recommender.py or api/main.py catches it.                               *)
Fail(t, stage, exc) ==
  /\ pc' = [pc EXCEPT ![t] = "error"]
  /\ frame' = [frame EXCEPT ![t].error = Some([stage |-> stage, exc |-> exc])]

(* POST /recommend: FastAPI validates the body as a UserProfile and only   *)
(* then calls recommend(profile), which calls get_recommendations.         *)
Received(t, raw, p) ==
  /\ IF p.ok
     THEN /\ pc' = [pc EXCEPT ![t] = "start"]
          /\ profile' = [profile EXCEPT ![t] = p.v]
     ELSE /\ pc' = [pc EXCEPT ![t] = "rejected"]
          /\ profile' = profile
  /\ probe' = [probe EXCEPT ![t] = [EmptyProbe EXCEPT !.request = raw]]

recommend(t, requests) ==
  /\ pc[t] = "idle"
  /\ \E raw \in requests : Received(t, raw, UserProfile(raw))
  /\ frame' = [frame EXCEPT ![t] = EmptyFrame]
  /\ response' = [response EXCEPT ![t] = NoneVal]
  /\ UNCHANGED <<CONTENT_ITEMS, _cached_content_embs, _cache_hash,
                 LLM_API_KEY, _local_model, cache_src>>

(* get_recommendations lines 71-73: log = [], items = get_all_content().   *)
Start(t) ==
  /\ pc[t] = "start"
  /\ pc' = [pc EXCEPT ![t] = "c_read"]
  /\ frame' = [frame EXCEPT ![t].items = CONTENT_ITEMS, ![t].log = <<>>]
  /\ UNCHANGED <<CONTENT_ITEMS, _cached_content_embs, _cache_hash,
                 LLM_API_KEY, _local_model, profile, response, probe, cache_src>>

(* _get_cached_content_embeddings lines 39-40.                             *)
CacheRead(t) ==
  /\ pc[t] = "c_read"
  /\ pc' = [pc EXCEPT ![t] = "c_check"]
  /\ frame' = [frame EXCEPT ![t].c_items = CONTENT_ITEMS,
                            ![t].current_hash = ids_hash(CONTENT_ITEMS)]
  /\ probe' = [probe EXCEPT
                 ![t].pre_cached = ~_cached_content_embs.isNone
                                   /\ ~_cache_hash.isNone,
                 ![t].pre_src = cache_src]
  /\ UNCHANGED <<CONTENT_ITEMS, _cached_content_embs, _cache_hash,
                 LLM_API_KEY, _local_model, profile, response, cache_src>>

(* Line 41: the cache test.                                                *)
CacheMiss(t) ==
  \/ _cached_content_embs.isNone
  \/ _cache_hash # Some(frame[t].current_hash)

CacheCheck(t) ==
  /\ pc[t] = "c_check"
  /\ pc' = [pc EXCEPT ![t] = IF CacheMiss(t) THEN "c_embed" ELSE "c_return"]
  /\ UNCHANGED <<CONTENT_ITEMS, _cached_content_embs, _cache_hash,
                 LLM_API_KEY, _local_model, profile, frame, response, probe, cache_src>>

(* Line 42, the call: get_content_embeddings(items) returns the vectors    *)
(* or raises, which ends the run.                                          *)
Embedded(t, got) ==
  /\ probe' = [probe EXCEPT
                 ![t].cat_embeds = @ + 1,
                 ![t].failed = IF got.ok THEN @ ELSE "EMBED_CATALOGUE"]
  /\ IF got.ok
     THEN /\ pc' = [pc EXCEPT ![t] = "c_store"]
          /\ frame' = [frame EXCEPT ![t].new_embs = got.v]
     ELSE Fail(t, "EMBED_CATALOGUE", got.exc)

(* A refresh that stores the new key before the vectors are computed.      *)
CacheEmbedKeyFirst(t, outcomes) ==
  /\ pc[t] = "c_embed"
  /\ \E outcome \in outcomes :
       Embedded(t, BackendVectors(frame[t].c_items, outcome))
  /\ _cache_hash' = Some(frame[t].current_hash)
  /\ UNCHANGED <<CONTENT_ITEMS, _cached_content_embs, LLM_API_KEY,
                 _local_model, profile, response, cache_src>>

CacheEmbed(t, outcomes) ==
  /\ pc[t] = "c_embed"
  /\ \E outcome \in outcomes :
       Embedded(t, BackendVectors(frame[t].c_items, outcome))
  /\ UNCHANGED <<CONTENT_ITEMS, _cached_content_embs, _cache_hash,
                 LLM_API_KEY, _local_model, profile, response, cache_src>>

(* Line 42, the assignment to the global.                                  *)
CacheStoreEmbs(t) ==
  /\ pc[t] = "c_store"
  /\ pc' = [pc EXCEPT ![t] = "c_key"]
  /\ _cached_content_embs' = Some(frame[t].new_embs)
  /\ probe' = [probe EXCEPT ![t].cache_writes = @ + 1]
  /\ UNCHANGED <<CONTENT_ITEMS, _cache_hash, LLM_API_KEY, _local_model, profile, frame,
                 response, cache_src>>

(* Line 43.                                                                *)
CacheStoreKey(t) ==
  /\ pc[t] = "c_key"
  /\ pc' = [pc EXCEPT ![t] = "c_return"]
  /\ _cache_hash' = Some(frame[t].current_hash)
  /\ cache_src' = frame[t].c_items
  /\ probe' = [probe EXCEPT ![t].cache_writes = @ + 1]
  /\ UNCHANGED <<CONTENT_ITEMS, _cached_content_embs, LLM_API_KEY, _local_model, profile,
                 frame, response>>

(* Line 44 returns the global; lines 76-87 log the stage.                  *)
CacheReturn(t) ==
  /\ pc[t] = "c_return"
  /\ pc' = [pc EXCEPT ![t] = "embed_user"]
  /\ frame' = [frame EXCEPT
       ![t].content_embs = _cached_content_embs,
       ![t].log = Append(@, PipelineStep("Embed content catalogue",
                                         <<"Encoded", Len(frame[t].items)>>))]
  /\ UNCHANGED <<CONTENT_ITEMS, _cached_content_embs, _cache_hash,
                 LLM_API_KEY, _local_model, profile, response, probe, cache_src>>

(* Lines 90-101.                                                           *)
EmbedUser(t) ==
  /\ pc[t] = "embed_user"
  /\ \E outcome \in BackendOutcomes :
       /\ probe' = [probe EXCEPT
                      ![t].user_embeds = @ + 1,
                      ![t].failed = IF outcome = "ok" THEN @
                                    ELSE "EMBED_USER"]
       /\ IF outcome = "ok"
          THEN /\ pc' = [pc EXCEPT ![t] = "retrieve"]
               /\ frame' = [frame EXCEPT
                    ![t].user_emb = Some(get_user_embedding(profile[t])),
                    ![t].log = Append(@, PipelineStep("Embed user profile",
                                 <<"Encoded goal",
                                   Len(profile[t].interest_tags)>>))]
          ELSE Fail(t, "EMBED_USER", "EmbeddingError")
  /\ UNCHANGED <<CONTENT_ITEMS, _cached_content_embs, _cache_hash,
                 LLM_API_KEY, _local_model, profile, response, cache_src>>

(* A retrieval stage that leaves no entry in the step log.                 *)
RetrievedUnlogged(t, got) ==
  IF got.ok
  THEN /\ pc' = [pc EXCEPT ![t] = "rank"]
       /\ frame' = [frame EXCEPT ![t].candidates = Some(got.v)]
  ELSE Fail(t, "RETRIEVE", got.exc)

(* Lines 104-121, with got the outcome of retrieve_top_k.                  *)
Retrieved(t, got) ==
  IF got.ok
  THEN /\ pc' = [pc EXCEPT ![t] = "rank"]
       /\ frame' = [frame EXCEPT
            ![t].candidates = Some(got.v),
            ![t].log = Append(@, PipelineStep(
                         "Cosine similarity retrieval",
                         <<"Retrieved top-5 from",
                           Len(frame[t].items)
                             - Len(profile[t].viewed_content_ids)>>))]
  ELSE Fail(t, "RETRIEVE", got.exc)

Retrieve(t) ==
  /\ pc[t] = "retrieve"
  /\ Retrieved(t, retrieve_top_k(frame[t].user_emb.v, frame[t].content_embs.v,
                                 frame[t].items, RetrieveK,
                                 profile[t].viewed_content_ids))
  /\ UNCHANGED <<CONTENT_ITEMS, _cached_content_embs, _cache_hash,
                 LLM_API_KEY, _local_model, profile, response, probe, cache_src>>

(* A ranking stage that logs the same step whichever path ran.             *)
RankedSameStep(t, got, exchange) ==
  /\ probe' = [probe EXCEPT ![t].llm_requests = @ + got.requests,
                            ![t].exchange = Some(exchange)]
  /\ IF got.res.ok
     THEN /\ pc' = [pc EXCEPT ![t] = "respond"]
          /\ frame' = [frame EXCEPT
               ![t].result = Some(got.res.v),
               ![t].log = Append(@, PipelineStep("Ranking", <<"Ranked">>))]
     ELSE Fail(t, "RANK", got.res.exc)

(* Lines 124-135, with got the outcome of rerank.                          *)
Ranked(t, got, exchange) ==
  /\ probe' = [probe EXCEPT ![t].llm_requests = @ + got.requests,
                            ![t].exchange = Some(exchange)]
  /\ IF got.res.ok
     THEN /\ pc' = [pc EXCEPT ![t] = "respond"]
          /\ frame' = [frame EXCEPT
               ![t].result = Some(got.res.v),
               ![t].log = Append(@, PipelineStep(
                  IF got.res.v.method = "llm" THEN "LLM re-ranking"
                  ELSE "Rule-based ranking",
                  <<"Ranked via", got.res.v.method>>))]
     ELSE Fail(t, "RANK", got.res.exc)

Rank(t, exchanges) ==
  /\ pc[t] = "rank"
  /\ \E exchange \in exchanges :
       Ranked(t, rerank(profile[t], frame[t].candidates.v, LLM_API_KEY,
                        exchange), exchange)
  /\ UNCHANGED <<CONTENT_ITEMS, _cached_content_embs, _cache_hash,
                 LLM_API_KEY, _local_model, profile, response, cache_src>>

(* Lines 137-145.                                                          *)
Respond(t) ==
  /\ pc[t] = "respond"
  /\ pc' = [pc EXCEPT ![t] = "done"]
  /\ response' = [response EXCEPT ![t] =
       Some(RecommendationResponse(profile[t].user_id,
              frame[t].result.v.recommendations, frame[t].log,
              frame[t].result.v.reasoning_raw))]
  /\ UNCHANGED <<CONTENT_ITEMS, _cached_content_embs, _cache_hash,
                 LLM_API_KEY, _local_model, profile, frame, probe, cache_src>>

(* The response (or the error) has been sent; the thread is free again.    *)
Finish(t) ==
  /\ pc[t] \in {"done", "error", "rejected"}
  /\ pc' = [pc EXCEPT ![t] = "idle"]
  /\ profile' = [profile EXCEPT ![t] = NoProfile]
  /\ frame' = [frame EXCEPT ![t] = EmptyFrame]
  /\ response' = [response EXCEPT ![t] = NoneVal]
  /\ probe' = [probe EXCEPT ![t] = EmptyProbe]
  /\ UNCHANGED <<CONTENT_ITEMS, _cached_content_embs, _cache_hash,
                 LLM_API_KEY, _local_model, cache_src>>

(* The catalogue provider is given another catalogue.                      *)
ChangeCatalogue(catalogues) ==
  /\ \E c \in catalogues \ {CONTENT_ITEMS} : CONTENT_ITEMS' = c
  /\ UNCHANGED <<_cached_content_embs, _cache_hash, LLM_API_KEY, _local_model, pc, profile,
                 frame, response, probe, cache_src>>

Step(t, requests, exchanges, outcomes) ==
  \/ recommend(t, requests)
  \/ Start(t)
  \/ CacheRead(t)
  \/ CacheCheck(t)
  \/ CacheEmbed(t, outcomes)
  \/ CacheStoreEmbs(t)
  \/ CacheStoreKey(t)
  \/ CacheReturn(t)
  \/ EmbedUser(t)
  \/ Retrieve(t)
  \/ Rank(t, exchanges)
  \/ Respond(t)
  \/ Finish(t)

(* One request at a time, over every request body, exchange and            *)
(* catalogue of the model.                                                 *)
Next ==
  \/ Step(1, Requests, Exchanges, BackendOutcomes \cup CountOutcomes)
  \/ ChangeCatalogue(Catalogues)

Spec == Init /\ [][Next]_vars

(* Two server threads handling requests concurrently.                      *)
ThreadRequests == {ReqAlice, ReqZeroTime}

ThreadExchanges == {XTransport, XGood3}

ThreadCatalogues == {CatA, CatB}

NextThreads ==
  \/ \E t \in Threads :
       Step(t, ThreadRequests, ThreadExchanges, BackendOutcomes)
  \/ ChangeCatalogue(ThreadCatalogues)

SpecThreads == Init /\ [][NextThreads]_vars

(***************************************************************************)
(* rerank called directly, on every profile of the model and every         *)
(* candidate list drawn from the catalogue (viewed and over-budget items   *)
(* included), with and without a credential.                               *)
(***************************************************************************)
MaxCandidates == 4

Arrangements(S, n) ==
  {s \in UNION {[1..m -> S] : m \in 0..n} :
     \A i, j \in DOMAIN s : i # j => s[i] # s[j]}

(* A profile with no interest tags that the catalogue can serve.           *)
ReqCarl ==
  [user_id |-> "u6", name |-> "Carl", goal |-> "nlp",
   learning_style |-> "reading", preferred_difficulty |-> "Intermediate",
   time_per_day |-> 90, viewed_content_ids |-> <<3>>]

RankRequests == Requests \cup {ReqCarl}

RankProfiles ==
  {UserProfile(raw).v : raw \in {r \in RankRequests : UserProfile(r).ok}}

InitRank ==
  /\ CONTENT_ITEMS = CatB
  /\ _cached_content_embs = NoneVal
  /\ _cache_hash = NoneVal
  /\ LLM_API_KEY \in {"", "hf_token"}
  /\ _local_model = NoneVal
  /\ pc = [t \in Threads |-> IF t = 1 THEN "rank" ELSE "idle"]
  /\ \E p \in RankProfiles :
       profile = [t \in Threads |-> IF t = 1 THEN p ELSE NoProfile]
  /\ \E c \in Arrangements(Range(CatB), MaxCandidates) :
       frame = [t \in Threads |->
                  IF t = 1 THEN [EmptyFrame EXCEPT !.candidates = Some(c)]
                  ELSE EmptyFrame]
  /\ response = [t \in Threads |-> NoneVal]
  /\ probe = [t \in Threads |-> EmptyProbe]
  /\ cache_src = <<>>

NextRank == Rank(1, Exchanges)

SpecRank == InitRank /\ [][NextRank]_vars

(***************************************************************************)
(* The same ranking request served twice, by two threads of one server:    *)
(* each thread's remote call gets its own answer, so one may be ranked     *)
(* remotely and the other by the rules, and both build their responses.    *)
(***************************************************************************)
(* A completion whose reasoning is, word for word, the text the rule-based *)
(* path reports.                                                           *)
XMimic == Message(<<LB, ObjOf(I2, 1), RB>>, RuleReasoning)

PairExchanges == Exchanges \cup {XMimic}

PairProfiles == {UserProfile(raw).v : raw \in {ReqDana, ReqCarl}}

MaxPairCandidates == 2

InitPair ==
  /\ CONTENT_ITEMS = CatB
  /\ _cached_content_embs = NoneVal
  /\ _cache_hash = NoneVal
  /\ LLM_API_KEY \in {"", "hf_token"}
  /\ _local_model = NoneVal
  /\ pc = [t \in Threads |-> "rank"]
  /\ \E p \in PairProfiles : profile = [t \in Threads |-> p]
  /\ \E c \in Arrangements(Range(CatB), MaxPairCandidates) :
       frame = [t \in Threads |-> [EmptyFrame EXCEPT !.candidates = Some(c)]]
  /\ response = [t \in Threads |-> NoneVal]
  /\ probe = [t \in Threads |-> EmptyProbe]
  /\ cache_src = <<>>

NextPair == \E t \in Threads : Rank(t, PairExchanges) \/ Respond(t)

SpecPair == InitPair /\ [][NextPair]_vars

(***************************************************************************)
(* retrieve_top_k called directly, on every user vector, item list, k and  *)
(* exclusion list of the model.                                            *)
(***************************************************************************)
MaxItems == 4

MaxK == 3

MaxExcluded == 2

UserVectors == {<<1, 0>>, <<0, 1>>, <<1, 1>>, <<0, 0>>}

ExcludeLists == UNION {[1..m -> {1, 2, 9}] : m \in 0..MaxExcluded}

InitRetrieve ==
  /\ CONTENT_ITEMS = CatB
  /\ _cached_content_embs = NoneVal
  /\ _cache_hash = NoneVal
  /\ LLM_API_KEY = ""
  /\ _local_model = NoneVal
  /\ pc = [t \in Threads |-> IF t = 1 THEN "call_retrieve" ELSE "idle"]
  /\ \E ex \in ExcludeLists :
       profile = [t \in Threads |->
                    IF t = 1 THEN [UserProfile(ReqDana).v
                                     EXCEPT !.viewed_content_ids = ex]
                    ELSE NoProfile]
  /\ \E items \in Arrangements(Range(CatB), MaxItems) \ {<<>>},
        u \in UserVectors :
       frame = [t \in Threads |->
                  IF t = 1
                  THEN [EmptyFrame EXCEPT
                          !.items = items,
                          !.content_embs = Some(get_content_embeddings(items)),
                          !.user_emb = Some(u)]
                  ELSE EmptyFrame]
  /\ response = [t \in Threads |-> NoneVal]
  /\ probe = [t \in Threads |-> EmptyProbe]
  /\ cache_src = <<>>

CallReturned(t, got) ==
  IF got.ok
  THEN /\ pc' = [pc EXCEPT ![t] = "retrieved"]
       /\ frame' = [frame EXCEPT ![t].candidates = Some(got.v)]
  ELSE Fail(t, "RETRIEVE", got.exc)

CallRetrieve(t) ==
  /\ pc[t] = "call_retrieve"
  /\ \E k \in 0..MaxK :
       /\ probe' = [probe EXCEPT ![t].k = k]
       /\ CallReturned(t, retrieve_top_k(frame[t].user_emb.v,
                            frame[t].content_embs.v, frame[t].items, k,
                            profile[t].viewed_content_ids))
  /\ UNCHANGED <<CONTENT_ITEMS, _cached_content_embs, _cache_hash,
                 LLM_API_KEY, _local_model, profile, response, cache_src>>

NextRetrieve == CallRetrieve(1)

SpecRetrieve == InitRetrieve /\ [][NextRetrieve]_vars

(***************************************************************************)
(* The same ranking request served twice over a catalogue whose items tie  *)
(* in score for a profile of five interest tags: T1 and T3 match three     *)
(* tags without the format bonus, T2 and T4 match two tags with it.        *)
(***************************************************************************)
T1 == ContentItem(11, "intro", "Intermediate", 45, <<"ml", "python", "nlp">>, "slides")

T2 == ContentItem(12, "serving", "Intermediate", 60, <<"ml", "deploy">>, "video")

T3 == ContentItem(13, "arrays", "Intermediate", 90, <<"python", "nlp", "numpy">>, "lecture")

T4 == ContentItem(14, "tokens", "Intermediate", 30, <<"nlp", "numpy", "rust">>, "video")

T5 == ContentItem(15, "basics", "Beginner", 20, <<"ml">>, "video")

CatT == <<T1, T2, T3, T4, T5>>

ReqErin ==
  [user_id |-> "u7", name |-> "Erin", goal |-> "ml",
   learning_style |-> "visual", preferred_difficulty |-> "Intermediate",
   time_per_day |-> 90, viewed_content_ids |-> <<15>>,
   interest_tags |-> <<"ml", "python", "nlp", "deploy", "numpy">>]

ScoreProfiles == {UserProfile(raw).v : raw \in {ReqErin, ReqDana, ReqCarl}}

ScoreExchanges == {XTransport, XGood3}

InitScore ==
  /\ CONTENT_ITEMS = CatT
  /\ _cached_content_embs = NoneVal
  /\ _cache_hash = NoneVal
  /\ LLM_API_KEY \in {"", "hf_token"}
  /\ _local_model = NoneVal
  /\ pc = [t \in Threads |-> "rank"]
  /\ \E p \in ScoreProfiles : profile = [t \in Threads |-> p]
  /\ \E c \in Arrangements(Range(CatT), MaxCandidates) :
       frame = [t \in Threads |-> [EmptyFrame EXCEPT !.candidates = Some(c)]]
  /\ response = [t \in Threads |-> NoneVal]
  /\ probe = [t \in Threads |-> EmptyProbe]
  /\ cache_src = <<>>

NextScore == \E t \in Threads : Rank(t, ScoreExchanges)

SpecScore == InitScore /\ [][NextScore]_vars

(***************************************************************************)
(* get_content_embeddings called directly with the remote backend: the     *)
(* provider embeds every text and returns the entries, each with the       *)
(* 0-based index of its input, in an order of its own.  The payload's data *)
(* list is held in probe.exchange, the array returned in                   *)
(* frame.content_embs.                                                     *)
(***************************************************************************)
ProviderData(items, order) ==
  [j \in DOMAIN items |->
     [index |-> order[j] - 1,
      embedding |-> Encode(_content_text(items[order[j]]))]]

InitEmbed ==
  /\ CONTENT_ITEMS = CatB
  /\ _cached_content_embs = NoneVal
  /\ _cache_hash = NoneVal
  /\ LLM_API_KEY = ""
  /\ _local_model = NoneVal
  /\ pc = [t \in Threads |-> IF t = 1 THEN "call_embed" ELSE "idle"]
  /\ profile = [t \in Threads |-> NoProfile]
  /\ \E items \in Arrangements(Range(CatB), MaxItems) \ {<<>>} :
       frame = [t \in Threads |->
                  IF t = 1 THEN [EmptyFrame EXCEPT !.items = items]
                  ELSE EmptyFrame]
  /\ response = [t \in Threads |-> NoneVal]
  /\ probe = [t \in Threads |-> EmptyProbe]
  /\ cache_src = <<>>

CallEmbed(t) ==
  /\ pc[t] = "call_embed"
  /\ pc' = [pc EXCEPT ![t] = "embedded"]
  /\ \E order \in Permutations(DOMAIN frame[t].items) :
       /\ probe' = [probe EXCEPT ![t].exchange =
                      Some(ProviderData(frame[t].items, order))]
       /\ frame' = [frame EXCEPT ![t].content_embs =
                      Some(_embed_via_api(ProviderData(frame[t].items,
                                                       order)))]
  /\ UNCHANGED <<CONTENT_ITEMS, _cached_content_embs, _cache_hash,
                 LLM_API_KEY, _local_model, profile, response, cache_src>>

NextEmbed == CallEmbed(1)

SpecEmbed == InitEmbed /\ [][NextEmbed]_vars

(***************************************************************************)
(* The local backend: embedding calls of two server threads, each going    *)
(* through _embed_locally and _get_local_model (embeddings.py lines 41-48  *)
(* and 61-64).  A handle is the number of the construction that made it;   *)
(* probe counts a thread's calls and constructions and collects the        *)
(* handles its calls were given.  The pipeline specifications above stand  *)
(* for the backend by the outcome of its call and leave _local_model       *)
(* alone.                                                                  *)
(***************************************************************************)
MaxEmbedCalls == 2

Constructions == probe[1].loads + probe[2].loads

(* _embed_locally is entered (line 63, the call).                          *)
EmbedLocally(t) ==
  /\ pc[t] = "idle"
  /\ probe[t].embed_calls < MaxEmbedCalls
  /\ pc' = [pc EXCEPT ![t] = "m_check"]
  /\ probe' = [probe EXCEPT ![t].embed_calls = @ + 1]
  /\ UNCHANGED <<CONTENT_ITEMS, _cached_content_embs, _cache_hash,
                 LLM_API_KEY, _local_model, profile, frame, response,
                 cache_src>>

(* Line 44: the test of the global.                                        *)
ModelCheck(t) ==
  /\ pc[t] = "m_check"
  /\ pc' = [pc EXCEPT ![t] =
              IF _local_model.isNone THEN "m_construct" ELSE "m_return"]
  /\ UNCHANGED <<CONTENT_ITEMS, _cached_content_embs, _cache_hash,
                 LLM_API_KEY, _local_model, profile, frame, response, probe,
                 cache_src>>

(* Lines 45-47, the right-hand side: the model is constructed.             *)
ModelConstruct(t) ==
  /\ pc[t] = "m_construct"
  /\ pc' = [pc EXCEPT ![t] = "m_assign"]
  /\ frame' = [frame EXCEPT ![t].new_model = Some(Constructions + 1)]
  /\ probe' = [probe EXCEPT ![t].loads = @ + 1]
  /\ UNCHANGED <<CONTENT_ITEMS, _cached_content_embs, _cache_hash,
                 LLM_API_KEY, _local_model, profile, response, cache_src>>

(* Line 47, the assignment to the global.                                  *)
ModelAssign(t) ==
  /\ pc[t] = "m_assign"
  /\ pc' = [pc EXCEPT ![t] = "m_return"]
  /\ _local_model' = frame[t].new_model
  /\ UNCHANGED <<CONTENT_ITEMS, _cached_content_embs, _cache_hash,
                 LLM_API_KEY, profile, frame, response, probe, cache_src>>

(* Line 48 and line 64: the global is returned and used to encode.         *)
ModelReturn(t) ==
  /\ pc[t] = "m_return"
  /\ pc' = [pc EXCEPT ![t] = "idle"]
  /\ frame' = [frame EXCEPT ![t].model = _local_model]
  /\ probe' = [probe EXCEPT ![t].used = @ \cup {_local_model.v}]
  /\ UNCHANGED <<CONTENT_ITEMS, _cached_content_embs, _cache_hash,
                 LLM_API_KEY, _local_model, profile, response, cache_src>>

InitLoad ==
  /\ CONTENT_ITEMS \in {CatA, CatB}
  /\ _cached_content_embs = NoneVal
  /\ _cache_hash = NoneVal
  /\ LLM_API_KEY \in {"", "hf_token"}
  /\ _local_model = NoneVal
  /\ pc = [t \in Threads |-> "idle"]
  /\ profile = [t \in Threads |-> NoProfile]
  /\ frame = [t \in Threads |-> EmptyFrame]
  /\ response = [t \in Threads |-> NoneVal]
  /\ probe = [t \in Threads |-> EmptyProbe]
  /\ cache_src = <<>>

NextLoad ==
  \E t \in Threads :
    \/ EmbedLocally(t)
    \/ ModelCheck(t)
    \/ ModelConstruct(t)
    \/ ModelAssign(t)
    \/ ModelReturn(t)

SpecLoad == InitLoad /\ [][NextLoad]_vars

(***************************************************************************)
(* _extract_json_array called directly, on response texts made of two      *)
(* segments (arrays of objects, stray brackets, arrays of scalars, nested  *)
(* arrays) with or without prose around and between them.  The text is     *)
(* held in probe.exchange, the list returned in frame.result.               *)
(***************************************************************************)
MaxArrayLen == 3

(* Objects whose text holds no bracket, the brackets of a tags array, a    *)
(* closing bracket inside a string, an opening bracket inside a string.    *)
ExtractObjects ==
  {OBJ([id |-> 1], <<>>),
   OBJ([id |-> 2, tags |-> <<"nlp">>], TagsBr),
   OBJ([id |-> 3, explanation |-> "see ]"], <<"]">>),
   OBJ([id |-> 4, explanation |-> "[ see"], <<"[">>)}

(* The text of a JSON array of the given objects.                          *)
RECURSIVE Joined(_)
Joined(objs) ==
  IF Len(objs) <= 1 THEN objs
  ELSE <<objs[1], COMMA>> \o Joined(Tail(objs))

ArrayText(objs) == <<LB>> \o Joined(objs) \o <<RB>>

Segments ==
  {ArrayText(objs) :
     objs \in UNION {[1..n -> ExtractObjects] : n \in 0..MaxArrayLen}}
  \cup {<<>>, <<LB>>, <<RB>>, <<LB, NUM, RB>>,
        <<LB, LB, OBJ([id |-> 1], <<>>), RB, RB>>,
        <<LB, OBJ([id |-> 1], <<>>), COMMA, NUM, RB>>}

InitExtract ==
  /\ CONTENT_ITEMS = CatB
  /\ _cached_content_embs = NoneVal
  /\ _cache_hash = NoneVal
  /\ LLM_API_KEY = "hf_token"
  /\ _local_model = NoneVal
  /\ pc = [t \in Threads |-> IF t = 1 THEN "call_extract" ELSE "idle"]
  /\ profile = [t \in Threads |-> NoProfile]
  /\ frame = [t \in Threads |-> EmptyFrame]
  /\ response = [t \in Threads |-> NoneVal]
  /\ \E a \in {<<>>, <<PROSE>>}, s1 \in Segments,
        b \in {<<>>, <<PROSE>>, <<COMMA>>}, s2 \in Segments,
        c \in {<<>>, <<PROSE>>} :
       probe = [t \in Threads |->
                  IF t = 1
                  THEN [EmptyProbe EXCEPT
                          !.exchange = Some(Message(a \o s1 \o b \o s2 \o c,
                                                    <<>>))]
                  ELSE EmptyProbe]
  /\ cache_src = <<>>

CallExtract(t) ==
  /\ pc[t] = "call_extract"
  /\ pc' = [pc EXCEPT ![t] = "extracted"]
  /\ frame' = [frame EXCEPT ![t].result =
                 Some(_extract_json_array(probe[t].exchange.v.content))]
  /\ UNCHANGED <<CONTENT_ITEMS, _cached_content_embs, _cache_hash,
                 LLM_API_KEY, _local_model, profile, response, probe, cache_src>>

NextExtract == CallExtract(1)

SpecExtract == InitExtract /\ [][NextExtract]_vars

(***************************************************************************)
(* Properties                                                              *)
(***************************************************************************)
Viewed(t) == Range(profile[t].viewed_content_ids)

Recs(t) == response[t].v.recommendations

(* C1: whatever the ranking stage produced, a response holds at most 3     *)
(* recommendations and none of them has an id the requesting profile has   *)
(* already viewed.                                                         *)
C1_AtMostThreeNoneViewed ==
  \A t \in Threads :
    ~response[t].isNone =>
      /\ Len(Recs(t)) <= 3
      /\ \A i \in DOMAIN Recs(t) : Recs(t)[i].id \notin Viewed(t)

(* A candidate surfaced by retrieval is eligible when the profile has not  *)
(* viewed it and, where the rule-based path ranked, it fits the time       *)
(* budget.                                                                 *)
Eligible(t, item) ==
  /\ item.id \notin Viewed(t)
  /\ frame[t].result.v.method = "rule-based"
       => item.duration_minutes <= profile[t].time_per_day

EligibleCount(t) ==
  Cardinality({i \in DOMAIN frame[t].candidates.v :
                 Eligible(t, frame[t].candidates.v[i])})

(* C2: a completed run answers with min(3, number of eligible candidates   *)
(* surfaced by retrieval) recommendations, whichever path ranked.          *)
C2_CountIsMinThreeEligible ==
  \A t \in Threads :
    ~response[t].isNone => Len(Recs(t)) = Min(3, EligibleCount(t))

(* The pipeline positions after _get_cached_content_embeddings decided     *)
(* whether to call the backend.                                            *)
CachePassed ==
  {"c_return", "embed_user", "retrieve", "rank", "respond", "done"}

Ids(items) == {items[i].id : i \in DOMAIN items}

(* C5: the backend embeds the catalogue on the first run, not on a later   *)
(* run whose catalogue is the cached one, and again on the first run       *)
(* after the catalogue's id set has changed.                               *)
C5_CacheInvokesBackendWhenNeeded ==
  \A t \in Threads :
    pc[t] \in CachePassed =>
      /\ ~probe[t].pre_cached => probe[t].cat_embeds = 1
      /\ probe[t].pre_cached /\ frame[t].c_items = probe[t].pre_src
           => probe[t].cat_embeds = 0
      /\ probe[t].pre_cached /\ Ids(frame[t].c_items) # Ids(probe[t].pre_src)
           => probe[t].cat_embeds = 1

(* C6: in every reachable state of concurrent runs the cached vectors are  *)
(* the vectors of exactly the catalogue whose id-tuple hash is the cached  *)
(* key.                                                                    *)
C6_CacheSelfConsistent ==
  ~_cached_content_embs.isNone /\ ~_cache_hash.isNone =>
    \E c \in Catalogues :
      /\ _cache_hash.v = ids_hash(c)
      /\ _cached_content_embs.v = get_content_embeddings(c)

(* C7: a failure of the catalogue-embedding or the user-embedding stage    *)
(* reaches the caller as the failure it is: the run ends with that error,  *)
(* builds no response, and runs neither retrieval nor ranking.  A failure  *)
(* of the remote ranking call ends no run.                                 *)
C7_EmbeddingFailuresPropagate ==
  \A t \in Threads :
    /\ probe[t].failed # "" =>
         /\ pc[t] = "error"
         /\ frame[t].error = Some([stage |-> probe[t].failed,
                                   exc |-> "EmbeddingError"])
         /\ response[t].isNone
         /\ frame[t].candidates.isNone
         /\ frame[t].result.isNone
         /\ probe[t].llm_requests = 0
         /\ probe[t].exchange.isNone
    /\ /\ ~probe[t].exchange.isNone
       /\ probe[t].exchange.v.kind \in {"transport", "status", "payload"}
       /\ pc[t] = "error"
       => frame[t].error.v.exc = "ValidationError"

(* An embedding stage has failed in a run.                                 *)
C7_Witness ==
  /\ \E t \in Threads : probe[t].failed = "EMBED_USER" /\ pc[t] = "error"
  /\ ~_cached_content_embs.isNone

(* The request body is one the claim calls malformed.                      *)
Malformed(raw) ==
  \/ \E f \in {"user_id", "name", "goal", "learning_style",
               "preferred_difficulty", "time_per_day"} : f \notin DOMAIN raw
  \/ raw.time_per_day <= 0
  \/ raw.learning_style \notin {"visual", "reading", "hands-on"}
  \/ raw.preferred_difficulty \notin {"Beginner", "Intermediate", "Advanced"}

(* C8: a request whose profile misses a required field, has a time budget  *)
(* of 0 or less, or names an unknown learning style or difficulty is       *)
(* rejected before any stage runs: no embedding call, no cache write, no   *)
(* ranking, and the step that rejects it leaves the cache as it was.       *)
C8_RejectedState ==
  \A t \in Threads :
    probe[t].request # NoBody /\ Malformed(probe[t].request) =>
      /\ pc[t] = "rejected"
      /\ frame[t] = EmptyFrame
      /\ response[t].isNone
      /\ probe[t].cat_embeds = 0
      /\ probe[t].user_embeds = 0
      /\ probe[t].llm_requests = 0
      /\ probe[t].cache_writes = 0

C8_RejectingStep ==
  \A t \in Threads :
    pc[t] # "rejected" /\ pc'[t] = "rejected" =>
      /\ _cached_content_embs' = _cached_content_embs
      /\ _cache_hash' = _cache_hash

C8_MalformedRejectedFirst == []C8_RejectedState /\ [][C8_RejectingStep]_vars

(* A malformed request has been rejected while the cache was filled.       *)
C8_Witness ==
  /\ \E t \in Threads : pc[t] = "rejected" /\ probe[t].request = ReqZeroTime
  /\ ~_cached_content_embs.isNone

(* The exchanges in which the remote path fails: network error, non-2xx    *)
(* response, empty response, no array in the text, an object that maps to  *)
(* no Recommendation.                                                      *)
RemoteFailures == {XTransport, XStatus, XEmpty, XNoArray, XNoId}

Candidates(t) == frame[t].candidates.v

FitsBudget(t, item) ==
  /\ item.id \notin Viewed(t)
  /\ item.duration_minutes <= profile[t].time_per_day

Fitting(t) == {i \in DOMAIN Candidates(t) : FitsBudget(t, Candidates(t)[i])}

(* rerank has returned or raised in thread t.                              *)
RankEnded(t) == ~probe[t].exchange.isNone

(* C3: with a credential configured, a failed remote attempt is the only   *)
(* one, rerank raises nothing, and its result is the rule-based result     *)
(* for the same profile and candidates, method "rule-based", non-empty     *)
(* whenever an eligible candidate exists.                                  *)
C3_RemoteFailureFallsBack ==
  \A t \in Threads :
    RankEnded(t) /\ LLM_API_KEY # "" /\ probe[t].exchange.v \in RemoteFailures
    => /\ probe[t].llm_requests = 1
       /\ pc[t] = "respond"
       /\ frame[t].result.v.method = "rule-based"
       /\ Ok(frame[t].result.v) = _rule_based_rerank(profile[t], Candidates(t))
       /\ Fitting(t) # {} => frame[t].result.v.recommendations # <<>>

(* C4: the rule-based path returns for every valid profile and candidate   *)
(* list, with min(3, candidates left after exclusion) recommendations.     *)
C4_RuleBasedNeverFails ==
  \A t \in Threads :
    RankEnded(t) /\ LLM_API_KEY = ""
    => /\ pc[t] = "respond"
       /\ Len(frame[t].result.v.recommendations)
            = Min(3, Cardinality(Fitting(t)))

(* The rule-based path has returned in thread t.                           *)
RuleBasedReturned(t) ==
  /\ RankEnded(t)
  /\ pc[t] = "respond"
  /\ frame[t].result.v.method = "rule-based"

RuleRecs(t) == frame[t].result.v.recommendations

(* C10: a rule-based result recommends no candidate that is viewed or      *)
(* longer than the time budget, and a candidate exactly as long as the     *)
(* budget is not excluded: it is recommended unless 3 others are.          *)
C10_RuleBasedExclusion ==
  \A t \in Threads :
    RuleBasedReturned(t) =>
      /\ \A r \in DOMAIN RuleRecs(t) :
           /\ RuleRecs(t)[r].id \notin Viewed(t)
           /\ \E i \in DOMAIN Candidates(t) :
                /\ Candidates(t)[i].id = RuleRecs(t)[r].id
                /\ Candidates(t)[i].duration_minutes <= profile[t].time_per_day
      /\ \A i \in DOMAIN Candidates(t) :
           /\ Candidates(t)[i].id \notin Viewed(t)
           /\ Candidates(t)[i].duration_minutes = profile[t].time_per_day
           /\ Len(RuleRecs(t)) < 3
           => \E r \in DOMAIN RuleRecs(t) :
                RuleRecs(t)[r].id = Candidates(t)[i].id

(* A rule-based result that keeps a candidate as long as the budget and    *)
(* drops a viewed candidate and a longer one.                              *)
C10_Witness ==
  \E t \in Threads :
    /\ RuleBasedReturned(t)
    /\ \E r \in DOMAIN RuleRecs(t) :
         RuleRecs(t)[r].duration_minutes = profile[t].time_per_day
    /\ \E i \in DOMAIN Candidates(t) : Candidates(t)[i].id \in Viewed(t)
    /\ \E i \in DOMAIN Candidates(t) :
         Candidates(t)[i].duration_minutes > profile[t].time_per_day

(* Row i of the call's candidate vectors ranks before row j: a greater     *)
(* similarity to the user vector, or an equal one and an earlier place.    *)
SimAt(t, i) ==
  cosine_similarity(frame[t].user_emb.v, frame[t].content_embs.v[i])

RanksBefore(t, i, j) ==
  \/ KeyLess(SimAt(t, j), SimAt(t, i))
  \/ KeyEq(SimAt(t, i), SimAt(t, j)) /\ i < j

(* The rows of the call's items whose id is not excluded.                  *)
KeptRows(t) ==
  {i \in DOMAIN frame[t].items : frame[t].items[i].id \notin Viewed(t)}

(* The row of the call's items that holds item.                            *)
RowOf(t, item) ==
  CHOOSE i \in DOMAIN frame[t].items : frame[t].items[i] = item

C9_Result ==
  \A t \in Threads :
    pc[t] = "retrieved" =>
      /\ Len(Candidates(t)) = Min(probe[t].k, Cardinality(KeptRows(t)))
      /\ \A n \in DOMAIN Candidates(t) :
           /\ Candidates(t)[n] \in Range(frame[t].items)
           /\ RowOf(t, Candidates(t)[n]) \in KeptRows(t)
           /\ \A m \in DOMAIN Candidates(t) :
                n < m => RanksBefore(t, RowOf(t, Candidates(t)[n]),
                                        RowOf(t, Candidates(t)[m]))
           /\ \A i \in KeptRows(t) :
                (\A m \in DOMAIN Candidates(t) :
                   RowOf(t, Candidates(t)[m]) # i)
                => RanksBefore(t, RowOf(t, Candidates(t)[n]), i)

C9_InputsKept ==
  \A t \in Threads :
    pc[t] = "call_retrieve" =>
      /\ frame'[t].user_emb = frame[t].user_emb
      /\ frame'[t].content_embs = frame[t].content_embs
      /\ frame'[t].items = frame[t].items
      /\ profile'[t] = profile[t]

(* C9: retrieve_top_k returns the candidates whose id is not excluded,     *)
(* by similarity descending with ties in catalogue order, cut to the       *)
(* first k, for every user vector, candidate list, k and exclusion list;   *)
(* the result is determined by the inputs, which the call leaves as they   *)
(* were.                                                                   *)
C9_RetrieveTopK == []C9_Result /\ [][C9_InputsKept]_vars

(* A call that excluded a candidate, cut the rest to k, and returned two   *)
(* candidates of equal similarity.                                         *)
C9_Witness ==
  \E t \in Threads :
    /\ pc[t] = "retrieved"
    /\ Len(Candidates(t)) = probe[t].k
    /\ Cardinality(KeptRows(t)) > probe[t].k
    /\ Cardinality(KeptRows(t)) < Len(frame[t].items)
    /\ \E n, m \in DOMAIN Candidates(t) :
         /\ n < m
         /\ KeyEq(SimAt(t, RowOf(t, Candidates(t)[n])),
                  SimAt(t, RowOf(t, Candidates(t)[m])))

(* The score the specification gives a candidate, in units of 1/3000:      *)
(* 0.2 is 600 units and 0.15 is 450.                                       *)
ProfileTags(t) == Range(profile[t].interest_tags)

StatedOverlap(t, item) ==
  (3000 * Cardinality(ProfileTags(t) \cap Range(item.tags)))
    \div (IF ProfileTags(t) = {} THEN 1 ELSE Cardinality(ProfileTags(t)))

StatedBonus(t, item) ==
  IF \/ profile[t].learning_style = "visual" /\ item.format = "video"
     \/ profile[t].learning_style = "reading"
          /\ item.format \in {"slides", "lecture"}
     \/ profile[t].learning_style = "hands-on"
          /\ item.format \in {"video", "lecture"}
  THEN 600 ELSE 0

Ordinal(d) ==
  CASE d = "Beginner" -> 0 [] d = "Intermediate" -> 1 [] d = "Advanced" -> 2

StatedPenalty(t, item) ==
  450 * Abs(Ordinal(item.difficulty)
              - Ordinal(profile[t].preferred_difficulty))

StatedScore(t, item) ==
  StatedOverlap(t, item) + StatedBonus(t, item) - StatedPenalty(t, item)

SourceOf(t, rec) ==
  Candidates(t)[CHOOSE i \in DOMAIN Candidates(t) :
                  Candidates(t)[i].id = rec.id]

(* ms, in thousandths, is the score (in units of 1/3000) rounded to 3      *)
(* decimals: the thousandth nearest to it.                                 *)
IsRounded(ms, score) == 2 * Abs(3 * ms - score) < 3

Extracted(t) == _extract_json_array(_call_llm(probe[t].exchange.v).v.text)

(* C13: in a result of either path the i-th recommendation has rank i,     *)
(* and there are at most 3; on the remote path the i-th recommendation is  *)
(* built from the i-th object of the extracted array, whatever rank the    *)
(* object names, and objects after the third are dropped.                  *)
C13_RankIsPosition ==
  \A t \in Threads :
    RankEnded(t) /\ pc[t] = "respond" =>
      /\ Len(RuleRecs(t)) <= 3
      /\ \A r \in DOMAIN RuleRecs(t) : RuleRecs(t)[r].rank = r
      /\ frame[t].result.v.method = "llm" =>
           /\ Len(RuleRecs(t)) = Min(3, Len(Extracted(t)))
           /\ \A r \in DOMAIN RuleRecs(t) :
                RuleRecs(t)[r].id = Extracted(t)[r].id

(* A remote result built from an array of four objects whose rank fields   *)
(* differ from their positions.                                            *)
C13_Witness ==
  \E t \in Threads :
    /\ RankEnded(t)
    /\ pc[t] = "respond"
    /\ frame[t].result.v.method = "llm"
    /\ Len(Extracted(t)) = 4
    /\ Len(RuleRecs(t)) = 3
    /\ \E r \in DOMAIN RuleRecs(t) : Extracted(t)[r].rank # r

(* C14: without a credential rerank sends no chat-completion request and   *)
(* what it returns has method "rule-based"; a result of method "llm"       *)
(* comes only from a configured credential and one request that succeeded  *)
(* and parsed into at least one object.                                    *)
C14_RemoteOnlyWithCredential ==
  \A t \in Threads :
    RankEnded(t) =>
      /\ probe[t].llm_requests <= 1
      /\ LLM_API_KEY = "" =>
           /\ probe[t].llm_requests = 0
           /\ pc[t] = "respond" => frame[t].result.v.method = "rule-based"
      /\ pc[t] = "respond" /\ frame[t].result.v.method = "llm" =>
           /\ LLM_API_KEY # ""
           /\ probe[t].llm_requests = 1
           /\ probe[t].exchange.v.kind = "ok"
           /\ Extracted(t) # <<>>
           /\ RuleRecs(t) # <<>>

(* rerank has returned a rule-based result without a credential where the  *)
(* remote endpoint would have answered with a valid array.                 *)
C14_Witness ==
  \E t \in Threads :
    /\ RuleBasedReturned(t)
    /\ LLM_API_KEY = ""
    /\ probe[t].exchange.v = XGood3
    /\ RuleRecs(t) # <<>>

(* The stage a pipeline position belongs to: 1 EMBED_CATALOGUE, 2          *)
(* EMBED_USER, 3 RETRIEVE, 4 RANK; 0 before the first stage, 5 after the   *)
(* last.                                                                   *)
StageOf(p) ==
  CASE p \in {"c_read", "c_check", "c_embed", "c_store", "c_key", "c_return"}
         -> 1
    [] p = "embed_user" -> 2
    [] p = "retrieve"   -> 3
    [] p = "rank"       -> 4
    [] p \in {"respond", "done"} -> 5
    [] OTHER -> 0

StageNames ==
  <<{"Embed content catalogue"}, {"Embed user profile"},
    {"Cosine similarity retrieval"}, {"LLM re-ranking", "Rule-based ranking"}>>

(* A step of a run stays in its stage or enters the next one, unless the   *)
(* run ends in an error.                                                   *)
C15_StageOrder ==
  \A t \in Threads :
    pc[t] \notin {"idle", "done", "error", "rejected"} /\ pc'[t] # pc[t] =>
      \/ pc'[t] = "error"
      \/ StageOf(pc'[t]) = StageOf(pc[t])
      \/ StageOf(pc'[t]) = StageOf(pc[t]) + 1

(* The log of a run holds one entry per stage passed, in stage order, and  *)
(* a completed run has passed all four.                                    *)
C15_Log ==
  \A t \in Threads :
    /\ StageOf(pc[t]) >= 2 =>
         /\ Len(frame[t].log) = StageOf(pc[t]) - 1
         /\ \A i \in DOMAIN frame[t].log :
              /\ frame[t].log[i].step \in StageNames[i]
              /\ frame[t].log[i].status = "done"
              /\ frame[t].log[i].duration_ms
                   = <<"elapsed", frame[t].log[i].step>>
    /\ ~response[t].isNone =>
         /\ response[t].v.pipeline_log = frame[t].log
         /\ Len(response[t].v.pipeline_log) = 4

(* C15: a run passes the stages EMBED_CATALOGUE, EMBED_USER, RETRIEVE,     *)
(* RANK in that order without going back, and the step log of a completed  *)
(* run has four entries, one per stage in execution order, each with       *)
(* status done and the elapsed time of its stage.                          *)
C15_StagesInOrderAndLogged == []C15_Log /\ [][C15_StageOrder]_vars

(* A run served from the cache and ranked by the remote path has           *)
(* completed.                                                              *)
C15_Witness ==
  \E t \in Threads :
    /\ pc[t] = "done"
    /\ probe[t].cat_embeds = 0
    /\ Len(response[t].v.pipeline_log) = 4
    /\ response[t].v.pipeline_log[4].step = "LLM re-ranking"

IdSeq(items) == [i \in DOMAIN items |-> items[i].id]

(* A run that found the cache filled for a catalogue with the id sequence  *)
(* of its own calls no backend, writes no cache field and works with the   *)
(* cached vectors.                                                         *)
C16_Reuse ==
  \A t \in Threads :
    /\ pc[t] \in CachePassed
    /\ probe[t].pre_cached
    /\ IdSeq(frame[t].c_items) = IdSeq(probe[t].pre_src)
    => /\ probe[t].cat_embeds = 0
       /\ probe[t].cache_writes = 0
       /\ pc[t] # "c_return" => frame[t].content_embs = _cached_content_embs

(* No step empties the cache, and only a run that embedded the catalogue   *)
(* changes it.                                                             *)
C16_NoEviction ==
  /\ ~_cached_content_embs.isNone => ~_cached_content_embs'.isNone
  /\ ~_cache_hash.isNone => ~_cache_hash'.isNone
  /\ <<_cached_content_embs, _cache_hash>>' # <<_cached_content_embs, _cache_hash>>
       => \E t \in Threads : probe'[t].cat_embeds = 1

(* C16: once the catalogue vectors are cached, every later run reuses      *)
(* them while the catalogue's id sequence is the cached one, also after    *)
(* an edit of the items' text, and the cache is never expired or evicted.  *)
C16_CacheKeptWhileIdsUnchanged == []C16_Reuse /\ [][C16_NoEviction]_vars

(* A run has reused the cached vectors for a catalogue whose text was      *)
(* edited after the vectors were computed.                                 *)
C16_Witness ==
  \E t \in Threads :
    /\ pc[t] = "done"
    /\ probe[t].pre_cached
    /\ frame[t].c_items = CatE
    /\ probe[t].pre_src = CatA
    /\ probe[t].cat_embeds = 0
    /\ frame[t].content_embs.v # get_content_embeddings(CatE)

(* C17: a backend answer with a number of vectors other than the number    *)
(* of texts makes the catalogue embedding fail, so no run reaches          *)
(* retrieval with a number of catalogue vectors other than the number of   *)
(* catalogue items.                                                        *)
C17_VectorCountMismatchFails ==
  \A t \in Threads :
    /\ pc[t] \in {"retrieve", "rank", "respond", "done"} =>
         Len(frame[t].content_embs.v) = Len(frame[t].items)
    /\ pc[t] = "c_store" =>
         Len(frame[t].new_embs) = Len(frame[t].c_items)

(* The reasoning text the provider supplied in the exchange of thread t,   *)
(* if any.                                                                 *)
ProviderReasoning(t) ==
  IF probe[t].exchange.v.reasoning = <<>> THEN NoneVal
  ELSE Some(probe[t].exchange.v.reasoning)

(* C18: the response's llm_reasoning is the provider's reasoning text      *)
(* when the remote path produced the result and the provider supplied      *)
(* one, and is absent otherwise.                                           *)
C18_ReasoningOnlyFromRemote ==
  \A t \in Threads :
    ~response[t].isNone =>
      response[t].v.llm_reasoning
        = IF frame[t].result.v.method = "llm" THEN ProviderReasoning(t)
          ELSE NoneVal

(* The remote path produced thread t's result: a credential is configured  *)
(* and the try block of rerank returned.                                   *)
RemoteProduced(t) ==
  /\ LLM_API_KEY # ""
  /\ RemoteRank(Candidates(t), probe[t].exchange.v).ok

(* The ranking step of a response: the last entry of its pipeline log.     *)
RankingStep(resp) == resp.pipeline_log[Len(resp.pipeline_log)]

(* What a caller reads of the path: the reasoning field and the ranking    *)
(* step's name and detail (the detail names the method).                   *)
PathFields(resp) ==
  <<resp.llm_reasoning, RankingStep(resp).step, RankingStep(resp).detail>>

(* C19: a response produced by the remote path and a response produced by  *)
(* the rule-based path (chosen for lack of a credential or reached as      *)
(* fallback) never agree on their reasoning and ranking-step fields.       *)
C19_PathDistinguishable ==
  \A t, u \in Threads :
    /\ ~response[t].isNone
    /\ ~response[u].isNone
    /\ RemoteProduced(t)
    /\ ~RemoteProduced(u)
    => PathFields(response[t].v) # PathFields(response[u].v)

(* One thread answered remotely with reasoning equal to the rule-based     *)
(* text, the other answered by fallback: the reasoning fields agree and    *)
(* the ranking steps tell the two apart.                                   *)
C19_Witness ==
  \E t, u \in Threads :
    /\ ~response[t].isNone
    /\ ~response[u].isNone
    /\ RemoteProduced(t)
    /\ ~RemoteProduced(u)
    /\ probe[u].llm_requests = 1
    /\ response[t].v.llm_reasoning = response[u].v.llm_reasoning
    /\ response[t].v.recommendations # <<>>
    /\ response[u].v.recommendations # <<>>

(* The scored candidate the r-th recommendation of thread t's rule-based   *)
(* result was built from: the r-th of the sorted survivors.                *)
BuiltFrom(t, r) == ScoredCandidates(profile[t], Candidates(t))[r].item

(* The fields a Recommendation copies from its ContentItem.                *)
CopiedFields(x) ==
  <<x.id, x.title, x.format, x.difficulty, x.duration_minutes, x.tags>>

(* C20: every recommendation of a rule-based result has the id, title,     *)
(* format, difficulty, duration_minutes and tags of the candidate it was   *)
(* built from, and that candidate is one of the candidates given.          *)
C20_RuleFieldsMatchSource ==
  \A t \in Threads :
    RuleBasedReturned(t) =>
      \A r \in DOMAIN RuleRecs(t) :
        /\ BuiltFrom(t, r) \in Range(Candidates(t))
        /\ CopiedFields(RuleRecs(t)[r]) = CopiedFields(BuiltFrom(t, r))

(* A rule-based result of several recommendations, one of them built from  *)
(* an item with a tag outside the profile's interests.                     *)
C20_Witness ==
  \E t \in Threads :
    /\ RuleBasedReturned(t)
    /\ Len(RuleRecs(t)) >= 2
    /\ \E r \in DOMAIN RuleRecs(t) :
         /\ RuleRecs(t)[r].tags # <<>>
         /\ ~(Range(RuleRecs(t)[r].tags) \subseteq ProfileTags(t))

(* The text handed to _extract_json_array in thread t.                     *)
RawText(t) == probe[t].exchange.v.content

(* The spans of a text that are JSON lists of objects: each runs from an   *)
(* opening to a closing bracket of the text proper (brackets inside string *)
(* values are not brackets of the text) and parses to a list of dicts.     *)
ObjectListSpans(raw) ==
  {sp \in (DOMAIN raw) \X (DOMAIN raw) :
     /\ sp[1] < sp[2]
     /\ json_array(raw, sp[1], sp[2]).ok
     /\ \A x \in Range(json_array(raw, sp[1], sp[2]).v) : IsDict(x)}

SpanList(raw, sp) == json_array(raw, sp[1], sp[2]).v

(* C21: _extract_json_array returns the list of a longest span among the   *)
(* spans of the text that parse as a JSON list of objects, and the empty   *)
(* list when there is none.                                                *)
C21_LongestObjectList ==
  \A t \in Threads :
    pc[t] = "extracted" =>
      IF ObjectListSpans(RawText(t)) = {} THEN frame[t].result.v = <<>>
      ELSE \E sp \in ObjectListSpans(RawText(t)) :
             /\ frame[t].result.v = SpanList(RawText(t), sp)
             /\ \A other \in ObjectListSpans(RawText(t)) :
                  Len(SpanList(RawText(t), other))
                    <= Len(SpanList(RawText(t), sp))

(* The remote call of thread t returned a text holding a list of objects.  *)
RemoteExtracted(t) ==
  /\ RankEnded(t)
  /\ LLM_API_KEY # ""
  /\ _call_llm(probe[t].exchange.v).ok
  /\ Extracted(t) # <<>>

(* The candidates of thread t with the id the object names.                *)
SameId(t, obj) ==
  {i \in DOMAIN Candidates(t) :
     "id" \in DOMAIN obj /\ Candidates(t)[i].id = obj.id}

(* The value stated for a field of the recommendation built from obj: the  *)
(* object's own, else that of a candidate with the same id, else the       *)
(* default.                                                                *)
StatedField(t, obj, field, default, got) ==
  IF field \in DOMAIN obj THEN got = obj[field]
  ELSE IF SameId(t, obj) # {}
  THEN \E i \in SameId(t, obj) : got = Candidates(t)[i][field]
  ELSE got = default

BackFilled(t, obj, rec) ==
  /\ StatedField(t, obj, "title", "", rec.title)
  /\ StatedField(t, obj, "format", "", rec.format)
  /\ StatedField(t, obj, "difficulty", "", rec.difficulty)
  /\ StatedField(t, obj, "duration_minutes", 0, rec.duration_minutes)
  /\ StatedField(t, obj, "tags", <<>>, rec.tags)

(* C22: when the remote call returned a list of objects, the remote path   *)
(* produces a Recommendation for each of the first 3 objects, whatever     *)
(* fields the object lacks, with each lacking field taken from the         *)
(* candidate with the same id, else defaulted.                             *)
C22_MissingFieldsBackFilled ==
  \A t \in Threads :
    RemoteExtracted(t) =>
      /\ pc[t] = "respond"
      /\ frame[t].result.v.method = "llm"
      /\ Len(RuleRecs(t)) = Min(3, Len(Extracted(t)))
      /\ \A r \in DOMAIN RuleRecs(t) :
           BackFilled(t, Extracted(t)[r], RuleRecs(t)[r])

(* The same, for objects that all name an id.                              *)
C22_BackFilledWhenIdGiven ==
  \A t \in Threads :
    RemoteExtracted(t)
    /\ (\A r \in 1..Min(3, Len(Extracted(t))) :
          "id" \in DOMAIN Extracted(t)[r])
    => /\ pc[t] = "respond"
       /\ frame[t].result.v.method = "llm"
       /\ Len(RuleRecs(t)) = Min(3, Len(Extracted(t)))
       /\ \A r \in DOMAIN RuleRecs(t) :
            BackFilled(t, Extracted(t)[r], RuleRecs(t)[r])

(* Survivor i of thread t is ranked before survivor j: its computed score  *)
(* is higher, or the scores are equal and it comes first in the            *)
(* candidate list.                                                         *)
RankedBefore(t, i, j) ==
  \/ KeyLess(FloatScore(profile[t], Candidates(t)[j]),
             FloatScore(profile[t], Candidates(t)[i]))
  \/ /\ KeyEq(FloatScore(profile[t], Candidates(t)[j]),
               FloatScore(profile[t], Candidates(t)[i]))
     /\ i < j

PlaceOf(t, i) == Cardinality({j \in Fitting(t) : RankedBefore(t, j, i)}) + 1

(* C23: a rule-based result lists the surviving candidates by computed     *)
(* score, highest first, equal scores in candidate-list order, cut to the  *)
(* first 3, each with its rounded score; two calls with the same profile   *)
(* and candidates give the same result.                                    *)
C23_SortedStableTopThree ==
  \A t \in Threads :
    RuleBasedReturned(t) =>
      /\ Len(RuleRecs(t)) = Min(3, Cardinality(Fitting(t)))
      /\ \A r \in DOMAIN RuleRecs(t) :
           \E i \in Fitting(t) :
             /\ PlaceOf(t, i) = r
             /\ CopiedFields(RuleRecs(t)[r]) = CopiedFields(Candidates(t)[i])
             /\ RuleRecs(t)[r].match_score
                  = Some(Round3(RuleScore(profile[t], Candidates(t)[i])))
      /\ \A u \in Threads :
           /\ RuleBasedReturned(u)
           /\ profile[u] = profile[t]
           /\ Candidates(u) = Candidates(t)
           => frame[u].result = frame[t].result

(* Both calls returned a rule-based result cut from four survivors, in     *)
(* which two candidates of equal computed score stand in candidate-list    *)
(* order.                                                                  *)
C23_Witness ==
  /\ \A t \in Threads : RuleBasedReturned(t)
  /\ Cardinality(Fitting(1)) = 4
  /\ Len(RuleRecs(1)) = 3
  /\ \E i, j \in Fitting(1) :
       /\ i < j
       /\ KeyEq(FloatScore(profile[1], Candidates(1)[i]),
                FloatScore(profile[1], Candidates(1)[j]))
       /\ PlaceOf(1, j) <= 3

(* Two survivors whose scores are equal as real numbers and differ as      *)
(* computed: the later one in the candidate list is ranked first.          *)
C23_RealTieReordered ==
  \E i, j \in Fitting(1) :
    /\ RuleBasedReturned(1)
    /\ i < j
    /\ RuleScore(profile[1], Candidates(1)[i])
         = RuleScore(profile[1], Candidates(1)[j])
    /\ PlaceOf(1, j) < PlaceOf(1, i)
    /\ PlaceOf(1, i) <= 3

(* The payload's data list that thread t's embedding call received.       *)
Payload(t) == probe[t].exchange.v

(* C24: whatever order the provider returns its entries in, row i of the   *)
(* array is the embedding of the one entry whose index is i (counted from  *)
(* 0), so there is one row per input text, in input order.                 *)
C24_RowsInDeclaredOrder ==
  \A t \in Threads :
    pc[t] = "embedded" =>
      /\ Len(frame[t].content_embs.v) = Len(frame[t].items)
      /\ \A i \in DOMAIN frame[t].items :
           /\ \E j \in DOMAIN Payload(t) :
                /\ Payload(t)[j].index = i - 1
                /\ frame[t].content_embs.v[i] = Payload(t)[j].embedding
           /\ frame[t].content_embs.v[i]
                = Encode(_content_text(frame[t].items[i]))

(* Three or more texts whose entries came back out of order, with vectors  *)
(* that differ, so that the rows had to be moved.                          *)
C24_Witness ==
  \E t \in Threads :
    /\ pc[t] = "embedded"
    /\ Len(frame[t].items) >= 3
    /\ \E j \in DOMAIN Payload(t) :
         /\ Payload(t)[j].index # j - 1
         /\ Payload(t)[j].embedding # frame[t].content_embs.v[j]

(* The handles the embedding calls of all threads were given.              *)
HandlesUsed == UNION {probe[t].used : t \in Threads}

(* C25: in every interleaving of embedding calls the local model is        *)
(* constructed at most once, and every call is given that one handle.      *)
C25_ModelLoadedOnce ==
  /\ Constructions <= 1
  /\ Cardinality(HandlesUsed) <= 1

(* The same while only one thread makes embedding calls.                   *)
C25_OnceWhenSequential ==
  probe[2].embed_calls = 0 =>
    /\ Constructions <= 1
    /\ Cardinality(HandlesUsed) <= 1
    /\ probe[1].embed_calls >= 1 /\ pc[1] = "idle" => HandlesUsed = {1}

(* C26: the matrix a run passes to retrieval has one row per item of the   *)
(* list it passes with it, and row i is the embedding of item i.           *)
C26_MatrixAlignedWithItems ==
  \A t \in Threads :
    pc[t] = "retrieve" =>
      /\ Len(frame[t].content_embs.v) = Len(frame[t].items)
      /\ \A i \in DOMAIN frame[t].items :
           frame[t].content_embs.v[i]
             = Encode(_content_text(frame[t].items[i]))

(* No two recommendations of the list carry the same content id.          *)
DistinctIds(recs) ==
  \A i, j \in DOMAIN recs : i # j => recs[i].id # recs[j].id

(* C27: no response holds two recommendations with the same content id,    *)
(* whichever path ranked.                                                  *)
C27_NoDuplicateIds ==
  \A t \in Threads :
    ~response[t].isNone => DistinctIds(Recs(t))

(* The same for the responses ranked by the rules.                         *)
C27_RuleBasedDistinct ==
  \A t \in Threads :
    ~response[t].isNone /\ frame[t].result.v.method = "rule-based"
    => DistinctIds(Recs(t))

(* The run of thread t ended because the catalogue could not be embedded.  *)
CatalogueEmbedFailed(t) == probe[t].failed = "EMBED_CATALOGUE"

(* C28: the step in which the catalogue embedding of a run fails, and     *)
(* every step while the run stands failed, leaves the stored vectors and   *)
(* the stored key as they were, and the failed run has written neither:    *)
(* an empty cache stays empty, a filled one keeps its vectors under the    *)
(* key they were stored with.                                              *)
C28_FailedEmbedLeavesCache ==
  [][\A t \in Threads :
       CatalogueEmbedFailed(t)' =>
         /\ _cached_content_embs' = _cached_content_embs
         /\ _cache_hash' = _cache_hash
         /\ probe'[t].cache_writes = 0
         /\ _cached_content_embs'.isNone <=> _cache_hash'.isNone
         /\ ~_cache_hash'.isNone => _cache_hash'.v = ids_hash(cache_src')]_vars

(* A refresh failed while vectors of another catalogue were cached.        *)
C28_Witness ==
  \E t \in Threads :
    /\ CatalogueEmbedFailed(t)
    /\ ~_cached_content_embs.isNone
    /\ _cache_hash.v # frame[t].current_hash

(* The candidate count the retrieval step of a response reports, and the  *)
(* number of items of the run's catalogue the profile has not viewed.      *)
ReportedCandidates(t) == response[t].v.pipeline_log[3].detail[2]

Unviewed(t) ==
  Cardinality({i \in DOMAIN frame[t].items :
                 frame[t].items[i].id \notin Viewed(t)})

(* C29: in a completed run the candidate count of the retrieval step's     *)
(* detail is the number of catalogue items whose id the profile has not    *)
(* viewed.                                                                 *)
C29_ReportedCountIsUnviewed ==
  \A t \in Threads :
    ~response[t].isNone => ReportedCandidates(t) = Unviewed(t)

(* The same for viewed lists of distinct ids that are all in the           *)
(* catalogue.                                                              *)
C29_CountWhenViewedInCatalogue ==
  \A t \in Threads :
    /\ ~response[t].isNone
    /\ Viewed(t) \subseteq Ids(frame[t].items)
    /\ Cardinality(Viewed(t)) = Len(profile[t].viewed_content_ids)
    => ReportedCandidates(t) = Unviewed(t)

====
